---- MODULE Spec2Model ----
(***************************************************************************)
(* Model of the deployment-service controller: the version calculator,     *)
(* the per-service reconciliation pipeline, the file-backed catalog, the   *)
(* service intake and the supervisor's admission loop.                     *)
(***************************************************************************)
EXTENDS Integers, Sequences, FiniteSets, TLC

(***************************************************************************)
(* Bounds of the model.                                                    *)
(***************************************************************************)
\* longest commit history enumerated for the version calculator
MaxLen == 3
\* largest component of a version carried by an enumerated tag
MaxVer == 1

(***************************************************************************)
(* Commit messages.  A message is abstracted to what the calculator's      *)
(* regular expression can see of its first characters: the leading word,   *)
(* whether a '!' follows it, and the character after that; a release       *)
(* commit also records the version it wrote into the versioned file.       *)
(***************************************************************************)
Ver(a, b, c) == <<a, b, c>>

NoVer == <<>>

CCTypes == {"fix", "feat", "chore", "docs", "ci"}

Msg(t, b, s) == [type |-> t, bang |-> b, sep |-> s, rel |-> NoVer, ver |-> NoVer]

\* "fix: y"
MsgFix == Msg("fix", FALSE, ":")
\* "feat: add X"
MsgFeat == Msg("feat", FALSE, ":")
\* "feat!: drop Y"
MsgFeatBang == Msg("feat", TRUE, ":")
\* "chore deps" (type followed by white space)
MsgChore == Msg("chore", FALSE, " ")
\* "fixup typo", "feat(scope): x": a listed type followed by another character
MsgFixup == Msg("fix", FALSE, "x")
\* "Merge branch 'dev'"
MsgMerge == Msg("Merge", FALSE, " ")

\* mutant: the message of the release commit names no version
ciCommitMsgFormat_NoVersion(v) == [Msg("ci", FALSE, ":") EXCEPT !.rel = v]

\* the release commit "ci: Release version <V>" of commitChanges (ver: the
\* version the message names; rel: the version in the versioned file the
\* commit records)
ciCommitMsgFormat(v) == [Msg("ci", FALSE, ":") EXCEPT !.rel = v, !.ver = v]

Messages == {MsgFix, MsgFeat, MsgFeatBang, MsgChore, MsgFixup, MsgMerge}

\* commitRegex := `^(fix|feat|chore|docs|ci)(!?)`: FindStringSubmatch # nil
commitRegex(m) == m.type \in CCTypes

\* the conventional-commit prefix of the data model: ^(fix|feat|chore|docs|ci)(!?)(:|\s)
SpecCommitRegex(m) == m.type \in CCTypes /\ m.sep \in {":", " "}

(***************************************************************************)
(* Versions and tag names.  A tag name is its syntactic kind and the       *)
(* numbers it spells: "strict" is MAJOR.MINOR.PATCH, "vprefix" is          *)
(* vMAJOR.MINOR.PATCH, "short" is MAJOR.MINOR, "prerelease" is             *)
(* MAJOR.MINOR.PATCH-rc.1, "word" is a name with no version in it.         *)
(***************************************************************************)
TagName(k, v) == [kind |-> k, v |-> v]

\* semverRegex := `^(\d+)\.(\d+)\.(\d+)$`
semverRegex(n) == n.kind = "strict"

\* semver.NewVersion(tagName) returns no error: the parser takes an optional
\* 'v', one to three numeric components, a pre-release and build metadata
\* ("short" is MAJOR.MINOR, "prerelease" is MAJOR.MINOR.PATCH-rc.1)
NewVersionOK(n) == n.kind \in {"strict", "vprefix", "short", "prerelease"}

IncMajor(v) == Ver(v[1] + 1, 0, 0)

IncMinor(v) == Ver(v[1], v[2] + 1, 0)

IncPatch(v) == Ver(v[1], v[2], v[3] + 1)

\* semver ordering on MAJOR.MINOR.PATCH
VerLess(a, b) ==
    \/ a[1] < b[1]
    \/ a[1] = b[1] /\ a[2] < b[2]
    \/ a[1] = b[1] /\ a[2] = b[2] /\ a[3] < b[3]

\* order in which the tag iterator yields references: by reference name
\* (versions of the model have one-digit components, so the order of the
\* names is the order of the number triples; kinds sort digits first)
KindRank(k) == IF k = "strict" THEN 0 ELSE IF k = "vprefix" THEN 1 ELSE 2

NameBefore(a, b) ==
    \/ KindRank(a.kind) < KindRank(b.kind)
    \/ KindRank(a.kind) = KindRank(b.kind) /\ (a.v = b.v \/ VerLess(a.v, b.v))

Tag(n, c, a) == [name |-> n, target |-> c, annotated |-> a, message |-> <<>>]

\* fmt.Sprintf("Release %s", version.String()), the message of a release tag
tagMessage(v) == <<"Release ", v>>

NoTag == [name |-> TagName("none", NoVer), target |-> 0, annotated |-> FALSE,
          message |-> <<>>]

FirstTag(S) == IF S = {} THEN NoTag
               ELSE CHOOSE t \in S : \A u \in S : NameBefore(t.name, u.name)

(***************************************************************************)
(* Version calculator (Versioner.CalculateNextVersion).  A repository is   *)
(* a linear log, a sequence of commits [id, msg] whose last element is     *)
(* HEAD, and a set of tags.                                                *)
(***************************************************************************)
Commit(i, m) == [id |-> i, msg |-> m]

NoFlags == [isMajor |-> FALSE, isMinor |-> FALSE, isPatch |-> FALSE]

\* the inner tags.ForEach: the first tag the calculator accepts at commit c;
\* repo.TagObject succeeds for annotated tags only
TagOfCommit(tags, c) ==
    FirstTag({t \in tags : t.annotated /\ t.target = c.id /\ semverRegex(t.name)})

\* mutant: a commit of type ci counts as a feature
Classify_CiIsMinor(flags, m) ==
    IF m.bang THEN [flags EXCEPT !.isMajor = TRUE]
    ELSE IF m.type \in {"feat", "ci"} THEN [flags EXCEPT !.isMinor = TRUE]
    ELSE [flags EXCEPT !.isPatch = TRUE]

\* the switch over the submatches of a conventional commit
Classify(flags, m) ==
    IF m.bang THEN [flags EXCEPT !.isMajor = TRUE]
    ELSE IF m.type = "feat" THEN [flags EXCEPT !.isMinor = TRUE]
    ELSE [flags EXCEPT !.isPatch = TRUE]

\* cIter.ForEach from HEAD (index i) towards the root
RECURSIVE WalkLog(_, _, _, _)
WalkLog(log, tags, i, flags) ==
    IF i = 0 THEN [err |-> "", latestTag |-> NoTag, flags |-> flags]
    ELSE LET c == log[i]
             t == TagOfCommit(tags, c)
         IN  IF t # NoTag
             THEN [err |-> "", latestTag |-> t, flags |-> flags]
             ELSE IF ~commitRegex(c.msg)
             THEN [err |-> "not a conventional commit", latestTag |-> NoTag,
                   flags |-> flags]
             ELSE WalkLog(log, tags, i - 1, Classify(flags, c.msg))

Bump(v, flags) ==
    IF flags.isMajor THEN IncMajor(v)
    ELSE IF flags.isMinor THEN IncMinor(v)
    ELSE IncPatch(v)

\* mutant: a repository with no base tag is released from 0.0.0
CalculateNextVersion_DefaultBase(log, tags) ==
    LET w == WalkLog(log, tags, Len(log), NoFlags)
    IN  IF w.err # "" THEN [err |-> w.err, version |-> NoVer]
        ELSE IF ~(w.flags.isMajor \/ w.flags.isMinor \/ w.flags.isPatch)
        THEN [err |-> "no conventional commit type found", version |-> NoVer]
        ELSE IF w.latestTag = NoTag
        THEN [err |-> "", version |-> Bump(Ver(0, 0, 0), w.flags)]
        ELSE [err |-> "", version |-> Bump(w.latestTag.name.v, w.flags)]

CalculateNextVersion(log, tags) ==
    LET w == WalkLog(log, tags, Len(log), NoFlags)
    IN  IF w.err # "" THEN [err |-> w.err, version |-> NoVer]
        ELSE IF w.latestTag = NoTag
        THEN [err |-> "no semver tag found", version |-> NoVer]
        ELSE IF ~(w.flags.isMajor \/ w.flags.isMinor \/ w.flags.isPatch)
        THEN [err |-> "no conventional commit type found", version |-> NoVer]
        ELSE [err |-> "", version |-> Bump(w.latestTag.name.v, w.flags)]

\* the tag iteration of shouldProcess: a tag at HEAD, annotated or
\* lightweight, whose name semver.NewVersion parses
FoundSemver(log, tags) ==
    \E t \in tags : t.target = log[Len(log)].id /\ NewVersionOK(t.name)

(***************************************************************************)
(* State.                                                                  *)
(***************************************************************************)
VARIABLES
    \* -- one registered service: its remote, its working tree, its task --
    svcKind,      \* configuration variant of the service: "npm" or "openapi"
    remoteLog,    \* branch of the git remote
    remoteTags,   \* tags of the git remote
    localLog,     \* branch of the cloned working tree
    localTags,    \* tags of the cloned working tree
    fileVer,      \* version written in the versioned file of the working tree
    nextId,       \* next unused commit id
    tpc,          \* position of the reconciliation task
    nextVersion,  \* nextVersion of the pass in progress (or of the last pass)
    passErr,      \* what the last finished pass returned: "" is nil
    passes,       \* whether a pass has finished
    headTagged,   \* foundSemver of the pass in progress (or of the last pass)
    effects,      \* the writes the pass in progress (or the last pass) made
    images,       \* tags of the images built by the image builder
    registry,     \* image references pushed to the image registry
    envFile,      \* whether the env file was written
    composeVer,   \* VERSION of the last compose up
    clients,      \* client packages published
    faults,       \* whether the environment can still make a step fail
    failedAt,     \* step of the pass in progress (or of the last pass) that failed
    stepsRun,     \* what the task did since it last sat at its select
    cancelled,    \* whether the process-wide context is cancelled
    tickPending,  \* whether ticker.C holds a tick
    \* -- the catalog, the intake and the supervisor --
    fs,           \* the catalog root: per name, what is on disk
    req,          \* the create requests: name, position, result
    chan,         \* the admission channel
    sentLog,      \* every token sent on the channel, in the order of the sends
    rcvdLog,      \* every token the supervisor received, in the order received
    boot,         \* the startup of the process: catalog found, position of main
    tasks,        \* reconciliation tasks started, per name
    lastGet,      \* the last answer of get
    lastRet,      \* per name, what the last create to return returned
    \* -- one call of a function of the service, taken on its own --
    ufs,          \* the files and directories the call works on
    call,         \* the call in progress: its arguments and its position
    ret           \* what the last call returned

pvars == <<svcKind, remoteLog, remoteTags, localLog, localTags, fileVer, nextId,
           tpc, nextVersion, passErr, passes, headTagged, effects, images,
           registry, envFile, composeVer, clients, faults, failedAt, stepsRun,
           cancelled, tickPending>>

cvars == <<fs, req, chan, sentLog, rcvdLog, boot, tasks, lastGet, lastRet>>

uvars == <<ufs, call, ret>>

vars == <<pvars, cvars, uvars>>

(***************************************************************************)
(* Bounds and inputs of the pipeline.                                      *)
(***************************************************************************)
\* commits ever created (by developers and by the pipeline)
MaxCommits == 4
\* tags a developer pushes to the remote
MaxDevTags == 1

BaseVer == Ver(1, 0, 0)

\* messages of the commits developers push
DevMessages == {MsgFix, MsgFeatBang, MsgFixup, MsgMerge}

\* names of the tags developers push
DevTagNames == {TagName("strict", BaseVer), TagName("vprefix", BaseVer),
                TagName("short", BaseVer), TagName("prerelease", BaseVer)}

Steps == {"file", "commit", "pushCommit", "tag", "pushTag", "build", "pushImage",
          "env", "compose", "client"}

IsPrefix(s, t) == Len(s) <= Len(t) /\ SubSeq(t, 1, Len(s)) = s

Ids(log) == {log[i].id : i \in 1..Len(log)}

Names(tags) == {t.name : t \in tags}

HeadCommit(log) == log[Len(log)]

(***************************************************************************)
(* Git Driver, as the pipeline uses it.                                    *)
(***************************************************************************)
\* wt.Pull(Force): nil or NoErrAlreadyUpToDate when the remote branch
\* fast-forwards the local one or the local one is not behind it
PullOK(local, remote) == IsPrefix(local, remote) \/ IsPrefix(remote, local)

PulledLog(local, remote) == IF IsPrefix(local, remote) THEN remote ELSE local

\* the fetch of the pull follows the tags of the commits it has
PulledTags(ltags, rtags, log) ==
    ltags \cup {t \in rtags : t.name \notin Names(ltags) /\ t.target \in Ids(log)}

\* repo.Push of the branch: nil or NoErrAlreadyUpToDate unless the remote
\* branch has commits the local one lacks
PushOK(local, remote) == IsPrefix(remote, local)

\* repo.Push of refs/tags/*:refs/tags/*
PushedTags(ltags, rtags) ==
    rtags \cup {t \in ltags : t.name \notin Names(rtags)}

\* the version in the versioned file as committed at HEAD: that of the last
\* release commit (NoVer: the content the developers committed)
RECURSIVE CommittedVer(_)
CommittedVer(log) ==
    IF log = <<>> THEN NoVer
    ELSE IF log[Len(log)].msg.rel # NoVer THEN log[Len(log)].msg.rel
    ELSE CommittedVer(SubSeq(log, 1, Len(log) - 1))

\* workTree.Commit has nothing to commit: depending on the git library it
\* makes an empty commit or returns ErrEmptyCommit
CleanTree(log, v) == CommittedVer(log) = v

\* repo.CreateTag fails when a tag of that name exists
CreateTagOK(tags, v) == TagName("strict", v) \notin Names(tags)

(***************************************************************************)
(* Reconciliation task (processBackgroundJob) and pipeline                 *)
(* (backgroundProcessor.ProcessService).                                   *)
(***************************************************************************)
\* a step that the environment can make fail does so only while faults last
MayFail == faults

\* a step that is handed the context can also fail once it is cancelled
CtxMayFail == MayFail \/ cancelled

artifacts == <<images, registry, envFile, composeVer, clients>>

git == <<remoteLog, remoteTags, localLog, localTags, nextId>>

\* the context and the ticker of the task
ctl == <<cancelled, tickPending>>

\* mutant: the task returns when ProcessService returns an error
Return_ExitOnError(err) ==
    /\ tpc' = IF err # "" THEN "exited" ELSE "wait"
    /\ passErr' = err
    /\ passes' = TRUE
    /\ failedAt' = IF err # "" THEN tpc ELSE failedAt
    /\ stepsRun' = <<>>

\* ProcessService returns err to the task, which logs it and waits for the
\* next tick
Return(err) ==
    /\ tpc' = "wait"
    /\ passErr' = err
    /\ passes' = TRUE
    /\ failedAt' = IF err # "" THEN tpc ELSE failedAt
    /\ stepsRun' = <<>>

Goto(step) ==
    /\ tpc' = step
    /\ stepsRun' = Append(stepsRun, tpc)
    /\ UNCHANGED <<passErr, passes, failedAt>>

\* mutant: a tick starts a pass wherever the task is
TaskAtSelect_AnyTime == tpc # "exited"

\* the task sits at the select of its loop
TaskAtSelect == tpc = "wait"

\* backgroundProcessor.ProcessService is called: a pass begins with the
\* local variables of the call fresh
StartPass ==
    /\ tpc' = "shouldProcess"
    /\ nextVersion' = NoVer
    /\ headTagged' = FALSE
    /\ effects' = {}
    /\ failedAt' = ""
    /\ stepsRun' = Append(stepsRun, "tick")
    /\ UNCHANGED <<cvars, uvars, cancelled, svcKind, git, fileVer, passErr, passes,
                   artifacts, faults>>

\* case <-ticker.C: the ticker fires while the task sits at the select, and
\* the select takes the tick
Tick ==
    /\ TaskAtSelect
    /\ ~tickPending
    /\ StartPass
    /\ UNCHANGED tickPending

\* mutant: only annotated tags at HEAD are looked at
shouldProcess_AnnotatedOnly(log, tags) ==
    ~\E t \in tags :
        t.annotated /\ t.target = log[Len(log)].id /\ NewVersionOK(t.name)

\* shouldProcess returns !foundSemver; the pull is in the action
shouldProcess(log, tags) == ~FoundSemver(log, tags)

ShouldProcess ==
    /\ tpc = "shouldProcess"
    /\ \/ /\ MayFail \/ ~PullOK(localLog, remoteLog)
          /\ Return("failed to pull")
          /\ UNCHANGED <<localLog, localTags, headTagged, fileVer>>
       \/ /\ PullOK(localLog, remoteLog)
          /\ LET log == PulledLog(localLog, remoteLog)
                 tags == PulledTags(localTags, remoteTags, log)
             IN  /\ localLog' = log
                 /\ localTags' = tags
                 /\ fileVer' = IF log = localLog THEN fileVer ELSE CommittedVer(log)
                 /\ headTagged' = FoundSemver(log, tags)
                 /\ IF ~shouldProcess(log, tags)
                    THEN Return("")
                    ELSE Goto("calculate")
    /\ UNCHANGED <<cvars, uvars, ctl, svcKind, remoteLog, remoteTags, nextId, nextVersion,
                   effects, artifacts, faults>>

\* bp.versioner.CalculateNextVersion
Calculate ==
    /\ tpc = "calculate"
    /\ LET r == CalculateNextVersion(localLog, localTags)
       IN  IF r.err # ""
           THEN Return(r.err) /\ UNCHANGED nextVersion
           ELSE Goto("mutate") /\ nextVersion' = r.version
    /\ UNCHANGED <<cvars, uvars, ctl, svcKind, git, fileVer, headTagged, effects, artifacts, faults>>

\* what the mutator returns when os.WriteFile of the versioned file fails:
\* SetPackageJsonVersion returns nil, SetOpenApiYamlVersion the error
WriteFileFailed(kind) == IF kind = "npm" THEN "" ELSE "failed to write versioned file"

\* SetPackageJsonVersion / SetOpenApiYamlVersion
Mutate ==
    /\ tpc = "mutate"
    /\ \/ /\ MayFail
          /\ Return("failed to read versioned file")
          /\ UNCHANGED <<fileVer, effects>>
       \/ /\ MayFail
          /\ IF WriteFileFailed(svcKind) # ""
             THEN Return(WriteFileFailed(svcKind))
             ELSE /\ tpc' = "commit"
                  /\ failedAt' = tpc
                  /\ stepsRun' = Append(stepsRun, tpc)
                  /\ UNCHANGED <<passErr, passes>>
          /\ UNCHANGED <<fileVer, effects>>
       \/ /\ fileVer' = nextVersion
          /\ effects' = effects \cup {"file"}
          /\ Goto("commit")
    /\ UNCHANGED <<cvars, uvars, ctl, svcKind, git, nextVersion, headTagged, artifacts, faults>>

\* commitChanges: AddGlob, Commit, then Push of the branch
CommitChanges ==
    /\ tpc = "commit"
    /\ nextId <= MaxCommits
    /\ \/ /\ MayFail \/ CleanTree(localLog, fileVer)
          /\ Return("failed to commit")
          /\ UNCHANGED <<localLog, nextId, effects>>
       \/ /\ localLog' = Append(localLog,
                 Commit(nextId, [ciCommitMsgFormat(nextVersion) EXCEPT !.rel = fileVer]))
          /\ nextId' = nextId + 1
          /\ effects' = effects \cup {"commit"}
          /\ Goto("pushCommit")
    /\ UNCHANGED <<cvars, uvars, ctl, svcKind, remoteLog, remoteTags, localTags, fileVer, nextVersion,
                   headTagged, artifacts, faults>>

PushCommit ==
    /\ tpc = "pushCommit"
    /\ \/ /\ MayFail \/ ~PushOK(localLog, remoteLog)
          /\ Return("failed to push commit")
          /\ UNCHANGED <<remoteLog, effects>>
       \/ /\ PushOK(localLog, remoteLog)
          /\ remoteLog' = localLog
          /\ effects' = effects \cup {"pushCommit"}
          /\ Goto("tag")
    /\ UNCHANGED <<cvars, uvars, ctl, svcKind, remoteTags, localLog, localTags, nextId, fileVer,
                   nextVersion, headTagged, artifacts, faults>>

\* tagAndPushChanges: CreateTag at HEAD, then Push of the tags
CreateTag ==
    /\ tpc = "tag"
    /\ \/ /\ MayFail \/ ~CreateTagOK(localTags, nextVersion)
          /\ Return("failed to create tag")
          /\ UNCHANGED <<localTags, effects>>
       \/ /\ CreateTagOK(localTags, nextVersion)
          /\ localTags' = localTags \cup
                 {[Tag(TagName("strict", nextVersion), HeadCommit(localLog).id, TRUE)
                      EXCEPT !.message = tagMessage(nextVersion)]}
          /\ effects' = effects \cup {"tag"}
          /\ Goto("pushTags")
    /\ UNCHANGED <<cvars, uvars, ctl, svcKind, remoteLog, remoteTags, localLog, nextId, fileVer,
                   nextVersion, headTagged, artifacts, faults>>

PushTags ==
    /\ tpc = "pushTags"
    /\ \/ /\ MayFail
          /\ Return("failed to push tags")
          /\ UNCHANGED <<remoteTags, effects>>
       \/ /\ remoteTags' = PushedTags(localTags, remoteTags)
          /\ effects' = effects \cup {"pushTag"}
          /\ Goto(IF svcKind = "npm" THEN "build" ELSE "client")
    /\ UNCHANGED <<cvars, uvars, ctl, svcKind, remoteLog, localLog, localTags, nextId, fileVer,
                   nextVersion, headTagged, artifacts, faults>>

\* the registry path put before the image names (ARTIFACT_PREFIX)
artifactPrefix == "registry.example/team"

\* service.Name.Name of the service of the pipeline
ServiceName == "svc"

\* version.String()
VersionString(v) == <<ToString(v[1]), ".", ToString(v[2]), ".", ToString(v[3])>>

\* fmt.Sprintf("%s:%s", imageName, version.String()), as the sequence of the
\* pieces of the string
FullyQualifiedImageTag(imageName, v) == <<imageName, ":">> \o VersionString(v)

\* mutant: the local name is used for the registry
CreateArtifactTag_NoPrefix(n, v) == FullyQualifiedImageTag(n, v)

\* fmt.Sprintf("%s/%s", r.artifactPrefix, r.FullyQualifiedImageTag(...))
CreateArtifactTag(n, v) ==
    <<artifactPrefix, "/">> \o FullyQualifiedImageTag(n, v)

\* BuildAndDeployNpmService: build (with the local and the registry tag),
\* push (of the registry tag), env file, compose up
BuildImage ==
    /\ tpc = "build"
    /\ \/ /\ CtxMayFail
          /\ Return("failed to build image")
          /\ UNCHANGED <<images, effects>>
       \/ /\ images' = images \cup {FullyQualifiedImageTag(ServiceName, nextVersion),
                                     CreateArtifactTag(ServiceName, nextVersion)}
          /\ effects' = effects \cup {"build"}
          /\ Goto("pushImage")
    /\ UNCHANGED <<cvars, uvars, ctl, svcKind, git, fileVer, nextVersion, headTagged, registry,
                   envFile, composeVer, clients, faults>>

PushImage ==
    /\ tpc = "pushImage"
    /\ \/ /\ CtxMayFail
          /\ Return("failed to push image")
          /\ UNCHANGED <<registry, effects>>
       \/ /\ registry' = registry \cup {CreateArtifactTag(ServiceName, nextVersion)}
          /\ effects' = effects \cup {"pushImage"}
          /\ Goto("env")
    /\ UNCHANGED <<cvars, uvars, ctl, svcKind, git, fileVer, nextVersion, headTagged, images,
                   envFile, composeVer, clients, faults>>

\* mutant: the error of the env-file writer is dropped
WriteEnvFile_ErrorIgnored ==
    /\ tpc = "env"
    /\ \/ /\ CtxMayFail
          /\ Goto("compose")
          /\ UNCHANGED <<envFile, effects>>
       \/ /\ envFile' = TRUE
          /\ effects' = effects \cup {"env"}
          /\ Goto("compose")
    /\ UNCHANGED <<cvars, uvars, ctl, svcKind, git, fileVer, nextVersion, headTagged, images,
                   registry, composeVer, clients, faults>>

WriteEnvFile ==
    /\ tpc = "env"
    /\ \/ /\ CtxMayFail
          /\ Return("failed to write env file")
          /\ UNCHANGED <<envFile, effects>>
       \/ /\ envFile' = TRUE
          /\ effects' = effects \cup {"env"}
          /\ Goto("compose")
    /\ UNCHANGED <<cvars, uvars, ctl, svcKind, git, fileVer, nextVersion, headTagged, images,
                   registry, composeVer, clients, faults>>

ComposeUp ==
    /\ tpc = "compose"
    /\ \/ /\ CtxMayFail
          /\ Return("compose up failed")
          /\ UNCHANGED <<composeVer, effects>>
       \/ /\ composeVer' = nextVersion
          /\ effects' = effects \cup {"compose"}
          /\ Return("")
    /\ UNCHANGED <<cvars, uvars, ctl, svcKind, git, fileVer, nextVersion, headTagged, images,
                   registry, envFile, clients, faults>>

\* BuildAndDeployOpenAPIClient
PublishClient ==
    /\ tpc = "client"
    /\ \/ /\ CtxMayFail
          /\ Return("failed to build and deploy OpenAPI npm client")
          /\ UNCHANGED <<clients, effects>>
       \/ /\ clients' = clients \cup {nextVersion}
          /\ effects' = effects \cup {"client"}
          /\ Return("")
    /\ UNCHANGED <<cvars, uvars, ctl, svcKind, git, fileVer, nextVersion, headTagged, images,
                   registry, envFile, composeVer, faults>>

(***************************************************************************)
(* Environment of a service: developers push commits and tags to the       *)
(* remote, and the cause of the failures goes away.                        *)
(***************************************************************************)
DevCommit(m) ==
    /\ nextId <= MaxCommits
    /\ remoteLog' = Append(remoteLog, Commit(nextId, m))
    /\ nextId' = nextId + 1
    /\ UNCHANGED <<cvars, uvars, ctl, svcKind, remoteTags, localLog, localTags, fileVer, tpc,
                   nextVersion, passErr, passes, failedAt, stepsRun, headTagged,
                   effects, artifacts, faults>>

DevTag(n, c, a) ==
    /\ Cardinality({t \in remoteTags : t.name \in DevTagNames}) < MaxDevTags
    /\ n \notin Names(remoteTags) \cup Names(localTags)
    /\ c \in Ids(remoteLog)
    /\ remoteTags' = remoteTags \cup {Tag(n, c, a)}
    /\ UNCHANGED <<cvars, uvars, ctl, svcKind, remoteLog, localLog, localTags, nextId, fileVer, tpc,
                   nextVersion, passErr, passes, failedAt, stepsRun, headTagged,
                   effects, artifacts, faults>>

ClearFaults ==
    /\ faults
    /\ faults' = FALSE
    /\ UNCHANGED <<cvars, uvars, ctl, svcKind, git, fileVer, tpc, nextVersion, passErr, passes,
                   failedAt, stepsRun, headTagged, effects, artifacts>>

\* a task that has just been started: nothing failed, nothing ran, the
\* context is live and the ticker has not fired
TaskFresh ==
    /\ failedAt = ""
    /\ stepsRun = <<>>
    /\ cancelled = FALSE
    /\ tickPending = FALSE

(***************************************************************************)
(* The catalog at rest, for the specifications of the pipeline.            *)
(***************************************************************************)
NoGet == [name |-> "", res |-> "none"]

\* main has passed its startup on an empty catalog and serves requests
Serving == [pc |-> "serve", n |-> 0, partial |-> FALSE, listed |-> 0, idx |-> 0]

\* no call of a function taken on its own
NoCall == [fn |-> "", pc |-> "none"]

UtilIdle ==
    /\ ufs = <<>>
    /\ call = NoCall
    /\ ret = <<>>

CatalogIdle ==
    /\ fs = <<>>
    /\ req = <<>>
    /\ chan = <<>>
    /\ sentLog = <<>>
    /\ rcvdLog = <<>>
    /\ boot = Serving
    /\ tasks = <<>>
    /\ lastGet = NoGet
    /\ lastRet = <<>>

(***************************************************************************)
(* Specification of the pipeline of one service: the service was created   *)
(* (cloned) from a remote with one commit, its task is waiting for a tick. *)
(***************************************************************************)
PipeInit ==
    /\ svcKind \in {"npm", "openapi"}
    /\ remoteLog = <<Commit(1, MsgFix)>>
    /\ remoteTags \in {{}, {Tag(TagName("strict", BaseVer), 1, TRUE)}}
    /\ localLog = remoteLog
    /\ localTags = remoteTags
    /\ fileVer = NoVer
    /\ nextId = 2
    /\ tpc = "wait"
    /\ nextVersion = NoVer
    /\ passErr = ""
    /\ passes = FALSE
    /\ headTagged = FALSE
    /\ effects = {}
    /\ images = {}
    /\ registry = {}
    /\ envFile = FALSE
    /\ composeVer = NoVer
    /\ clients = {}
    /\ TaskFresh
    /\ faults \in BOOLEAN
    /\ CatalogIdle
    /\ UtilIdle

PipeNext ==
    \/ Tick
    \/ ShouldProcess
    \/ Calculate
    \/ Mutate
    \/ CommitChanges
    \/ PushCommit
    \/ CreateTag
    \/ PushTags
    \/ BuildImage
    \/ PushImage
    \/ WriteEnvFile
    \/ ComposeUp
    \/ PublishClient
    \/ \E m \in DevMessages : DevCommit(m)
    \/ \E n \in DevTagNames, c \in 1..MaxCommits, a \in BOOLEAN : DevTag(n, c, a)
    \/ ClearFaults

SpecPipe == PipeInit /\ [][PipeNext]_vars

(***************************************************************************)
(* Specification of the version calculator alone: a repository is drawn    *)
(* from the bounded histories and tag sets, and CalculateNextVersion is    *)
(* applied to it.                                                          *)
(***************************************************************************)
\* tags in an enumerated repository
MaxTags == 2

CalcVersions == {Ver(a, b, MaxVer) : a, b \in 0..MaxVer}

CalcTagNames ==
    {TagName("strict", v) : v \in CalcVersions}
        \cup {TagName("vprefix", Ver(0, 0, MaxVer)), TagName("word", NoVer)}

Histories(n) == {[i \in 1..n |-> Commit(i, f[i])] : f \in [1..n -> Messages]}

TagSets(n) ==
    LET All == {Tag(nm, c, a) : nm \in CalcTagNames, c \in 1..n, a \in BOOLEAN}
        Pick == UNION {{{f[i] : i \in 1..k} : f \in [1..k -> All]} : k \in 0..MaxTags}
    IN  {S \in Pick : \A t, u \in S : t.name = u.name => t = u}

CalcInit ==
    /\ svcKind = "npm"
    /\ \E n \in 1..MaxLen :
          /\ localLog \in Histories(n)
          /\ localTags \in TagSets(n)
    /\ remoteLog = localLog
    /\ remoteTags = localTags
    /\ fileVer = NoVer
    /\ nextId = Len(localLog) + 1
    /\ tpc = "calculate"
    /\ nextVersion = NoVer
    /\ passErr = ""
    /\ passes = FALSE
    /\ headTagged = FALSE
    /\ effects = {}
    /\ images = {}
    /\ registry = {}
    /\ envFile = FALSE
    /\ composeVer = NoVer
    /\ clients = {}
    /\ TaskFresh
    /\ faults = FALSE
    /\ CatalogIdle
    /\ UtilIdle

CalcNext == Calculate

SpecCalc == CalcInit /\ [][CalcNext]_vars

(***************************************************************************)
(* Notions the claims are stated with.                                     *)
(***************************************************************************)
\* the tags with a MAJOR.MINOR.PATCH name at the i-th commit, annotated or
\* lightweight
SemverTagsAt(log, tags, i) ==
    {t \in tags : t.target = log[i].id /\ semverRegex(t.name)}

\* the nearest semver-tagged commit reached walking back from HEAD (0: none)
BaseIndex(log, tags) ==
    LET I == {i \in 1..Len(log) : SemverTagsAt(log, tags, i) # {}}
    IN  IF I = {} THEN 0 ELSE CHOOSE i \in I : \A j \in I : j <= i

\* the messages of the commits between HEAD and that commit
Since(log, tags) ==
    {log[i].msg : i \in (BaseIndex(log, tags) + 1)..Len(log)}

\* the precedence '!' > feat > other applied to base version b
ExpectedNext(b, msgs) ==
    IF \E m \in msgs : m.bang THEN <<b[1] + 1, 0, 0>>
    ELSE IF \E m \in msgs : m.type = "feat" THEN <<b[1], b[2] + 1, 0>>
    ELSE <<b[1], b[2], b[3] + 1>>

\* a pass has just returned to the task
PassReturned == passes /\ tpc = "wait"

\* no commit of the log carries a tag that names a version
NoVersionTag(log, tags) ==
    \A t \in tags : t.target \in Ids(log) => ~NewVersionOK(t.name)

(***************************************************************************)
(* C1: a pass that finds, after its pull, a semver tag at HEAD returns nil *)
(* and has made no write: no file mutation, commit, tag, push, build,      *)
(* image push, env file, client publication or compose invocation.         *)
(***************************************************************************)
C1_TaggedHeadPassIsNoop ==
    (PassReturned /\ headTagged) => (passErr = "" /\ effects = {})

C1_Witness ==
    /\ PassReturned
    /\ headTagged
    /\ passErr = ""
    /\ Len(localLog) > 1

(***************************************************************************)
(* C8: with B the tag of the nearest semver-tagged commit below HEAD and a *)
(* non-empty run of conventional commits above it, CalculateNextVersion    *)
(* returns B bumped by the precedence '!' > feat > other, whatever the     *)
(* message of the tagged commit, and the result is greater than B.         *)
(***************************************************************************)
C8_NextVersionFromNearestTag ==
    LET i == BaseIndex(localLog, localTags)
        T == SemverTagsAt(localLog, localTags, i)
        b == (CHOOSE t \in T : TRUE).name.v
    IN  (/\ tpc # "calculate"
         /\ 0 < i /\ i < Len(localLog)
         /\ Cardinality(T) = 1
         /\ \A m \in Since(localLog, localTags) : SpecCommitRegex(m))
        => /\ passErr = ""
           /\ nextVersion = ExpectedNext(b, Since(localLog, localTags))
           /\ VerLess(b, nextVersion)

(***************************************************************************)
(* C9: when the first line of a commit between HEAD and the base tag does  *)
(* not match ^(fix|feat|chore|docs|ci)(!?)(:|\s), CalculateNextVersion     *)
(* fails, so the pass never reaches the mutation of the versioned file.    *)
(***************************************************************************)
C9_NonConventionalCommitFails ==
    tpc = "mutate" => \A m \in Since(localLog, localTags) : SpecCommitRegex(m)

(***************************************************************************)
(* C10: a pass that reaches the calculator on a history of conventional    *)
(* commits none of which carries a version tag returns 'no semver tag      *)
(* found' and has made no write; this holds of every pass, so the outcome  *)
(* repeats until a base tag appears.                                       *)
(***************************************************************************)
C10_NoBaseTagFails ==
    (/\ PassReturned
     /\ passErr # "failed to pull"
     /\ NoVersionTag(localLog, localTags)
     /\ \A i \in 1..Len(localLog) : SpecCommitRegex(localLog[i].msg))
    => (passErr = "no semver tag found" /\ effects = {})

C10_Witness ==
    /\ PassReturned
    /\ passErr = "no semver tag found"
    /\ Len(localLog) > 1
    /\ effects = {}

\* C8 on the repositories whose semver-named tags are all annotated: there
\* the calculator's result is the bump of the nearest tag
C8_AnnotatedTagsOnly ==
    (\A t \in localTags : semverRegex(t.name) => t.annotated)
        => C8_NextVersionFromNearestTag

C8_AnnotatedWitness ==
    /\ tpc = "mutate"
    /\ \E t \in localTags : semverRegex(t.name) /\ t.annotated
    /\ \E m \in Since(localLog, localTags) : m.bang
    /\ \E m \in Since(localLog, localTags) : m.type = "feat" /\ ~m.bang

(***************************************************************************)
(* Specification of the retries of one service: its remote holds a tagged  *)
(* commit and one commit to release, no further commit arrives, the task   *)
(* keeps ticking and each step it is at is eventually taken.               *)
(***************************************************************************)
RetryInit ==
    /\ svcKind \in {"npm", "openapi"}
    /\ \E m \in {MsgFix, MsgFeat, MsgFeatBang} :
          remoteLog = <<Commit(1, MsgFix), Commit(2, m)>>
    /\ remoteTags = {Tag(TagName("strict", BaseVer), 1, TRUE)}
    /\ localLog = remoteLog
    /\ localTags = remoteTags
    /\ fileVer = NoVer
    /\ nextId = 3
    /\ tpc = "wait"
    /\ nextVersion = NoVer
    /\ passErr = ""
    /\ passes = FALSE
    /\ headTagged = FALSE
    /\ effects = {}
    /\ images = {}
    /\ registry = {}
    /\ envFile = FALSE
    /\ composeVer = NoVer
    /\ clients = {}
    /\ TaskFresh
    /\ faults = TRUE
    /\ CatalogIdle
    /\ UtilIdle

RetryNext ==
    \/ Tick
    \/ ShouldProcess
    \/ Calculate
    \/ Mutate
    \/ CommitChanges
    \/ PushCommit
    \/ CreateTag
    \/ PushTags
    \/ BuildImage
    \/ PushImage
    \/ WriteEnvFile
    \/ ComposeUp
    \/ PublishClient
    \/ ClearFaults

\* the ticker keeps firing and a pass that has begun runs on to its return
TaskStep ==
    \/ Tick \/ ShouldProcess \/ Calculate \/ Mutate \/ CommitChanges
    \/ PushCommit \/ CreateTag \/ PushTags \/ BuildImage \/ PushImage
    \/ WriteEnvFile \/ ComposeUp \/ PublishClient

SpecRetry == RetryInit /\ [][RetryNext]_vars /\ WF_vars(TaskStep)

\* tag v is on the remote, the artifacts of v are published and, for an
\* NpmService, the stack was brought up with VERSION = v
Released(v) ==
    /\ TagName("strict", v) \in Names(remoteTags)
    /\ svcKind = "npm" =>
          (CreateArtifactTag(ServiceName, v) \in registry /\ composeVer = v)
    /\ svcKind = "openapi" => v \in clients

AfterCommitErrors ==
    {"failed to push commit", "failed to push tags", "failed to build image",
     "failed to push image", "failed to write env file", "compose up failed",
     "failed to build and deploy OpenAPI npm client"}

ReleaseVersions == {IncMajor(BaseVer), IncMinor(BaseVer), IncPatch(BaseVer)}

(***************************************************************************)
(* C2: when a pass for version V failed at a step after the release commit *)
(* or the tag was made locally, and the cause of the failure is gone, then *)
(* with no new commit on the branch later ticks re-execute the failed step *)
(* and V is eventually released.                                           *)
(***************************************************************************)
C2_FailedStepIsRetried ==
    \A v \in ReleaseVersions :
        [](( /\ PassReturned
             /\ passErr \in AfterCommitErrors
             /\ nextVersion = v
             /\ ~faults ) => <>Released(v))

(***************************************************************************)
(* Catalog Store (repo.deploymentService), Service Intake                  *)
(* (service.deploymentService.Create) and the supervisor's admission loop. *)
(***************************************************************************)
\* create requests handled in one run
MaxReq == 3

\* serviceChannel := make(service.ServiceChannel, 100)
ChannelCapacity == 100

CatNames == {"a", "b"}

Reqs == 1..MaxReq

\* <root>/<name> : whether it is a directory, whether it is a file of another
\* kind, the descriptor in the directory (0: none, r: written by request r),
\* whether the descriptor is something json.Unmarshal rejects, the repo/
\* directory and the repository in it (0: none, r: cloned by request r)
Absent == [dir |-> FALSE, file |-> FALSE, desc |-> 0, bad |-> FALSE,
           repoDir |-> FALSE, clone |-> 0]

\* written by something else than a create request of this run
Foreign == -1

FileEntry == [Absent EXCEPT !.file = TRUE]

EmptyDir == [Absent EXCEPT !.dir = TRUE]

BadDir == [Absent EXCEPT !.dir = TRUE, !.desc = Foreign, !.bad = TRUE]

StoredDir == [Absent EXCEPT !.dir = TRUE, !.desc = Foreign, !.repoDir = TRUE,
                            !.clone = Foreign]

Entries == {Absent, FileEntry, EmptyDir, BadDir, StoredDir}

NoReq == [name |-> "", pc |-> "idle", res |-> "", afterOk |-> FALSE,
          prev |-> "", madeDir |-> FALSE, wrote |-> FALSE, stored |-> FALSE,
          sent |-> FALSE, dirLeft |-> FALSE]

\* what the create request r carries besides the name: the branch, the
\* configuration variant, and the id FromCreateRequest generates for it
BranchOf(r) == IF r % 2 = 1 THEN "main" ELSE "develop"

\* (a pointer is <<>> when nil, else the one-element sequence of what it
\* points to)
ConfigOf(r) ==
    IF r % 2 = 1
    THEN [Npm |-> <<[Service |-> [EnvPath |-> ".env", DockerfilePath |-> "Dockerfile",
                                  DockerComposePath |-> "compose.yaml"]]>>,
          OpenAPI |-> <<>>]
    ELSE [Npm |-> <<>>,
          OpenAPI |-> <<[OpenAPI |-> [YamlFile |-> "api.yaml",
                                      TypescriptClient |-> <<>>,
                                      GoClient |-> <<>>]]>>]

\* model.Service as service.Create receives it from FromCreateRequest
ServiceOf(r, n) ==
    [Name |-> n, ID |-> ToString(r), GitSSHUrl |-> <<"git@host", n>>,
     GitBranchName |-> BranchOf(r), GitRepoFilePath |-> "",
     Configuration |-> ConfigOf(r)]

\* json.MarshalIndent(service): the object with the keys of the json tags,
\* and the name of the field where there is no tag
MarshalIndent(s) ==
    [k \in {"name", "id", "git_ssh_url", "branch_name", "GitRepoFilePath",
            "configuration"} |->
        CASE k = "name" -> s.Name
          [] k = "id" -> s.ID
          [] k = "git_ssh_url" -> s.GitSSHUrl
          [] k = "branch_name" -> s.GitBranchName
          [] k = "GitRepoFilePath" -> s.GitRepoFilePath
          [] k = "configuration" -> s.Configuration]

\* json.Unmarshal(fileBytes, service): a key that is missing leaves the zero
\* value, other keys are ignored
Unmarshal(j) ==
    LET at(k, zero) == IF k \in DOMAIN j THEN j[k] ELSE zero
    IN  [Name |-> at("name", ""), ID |-> at("id", ""),
         GitSSHUrl |-> at("git_ssh_url", ""),
         GitBranchName |-> at("branch_name", ""),
         GitRepoFilePath |-> at("GitRepoFilePath", ""),
         Configuration |-> at("configuration", [Npm |-> <<>>, OpenAPI |-> <<>>])]

\* path.Join(ds.filePath, serviceName, "repo")
getGitRepoFilePath(n) == <<"<root>", n, "repo">>

\* mutant: a directory without descriptor is reported as not found
Get_MissingDescriptorNotFound(disk, n) ==
    IF ~disk[n].dir \/ disk[n].desc = 0 THEN "NotFound"
    ELSE IF disk[n].bad THEN "error"
    ELSE "record"

\* repo.Get: NotFound when os.Stat fails or the path is not a directory, the
\* error of ReadFile when there is no descriptor, the error of Unmarshal when
\* it does not parse, else the record
Get(disk, n) ==
    IF ~disk[n].dir THEN "NotFound"
    ELSE IF disk[n].desc = 0 THEN "error"
    ELSE IF disk[n].bad THEN "error"
    ELSE "record"

\* the record repo.Get returns when it returns one
GetRecord(disk, n) ==
    [Unmarshal(MarshalIndent(ServiceOf(disk[n].desc, n)))
        EXCEPT !.GitRepoFilePath = getGitRepoFilePath(n)]

\* mutant: an existing record is not reported as a conflict
CreateAfterGet_NoConflict(g) ==
    IF g = "error" THEN "return err" ELSE "create"

\* service.Create: what err and existingService of ds.Get make it do
CreateAfterGet(g) ==
    IF g = "error" THEN "return err"
    ELSE IF g = "record" THEN "Conflict"
    ELSE "create"

InFlight(r) == req[r].pc \notin {"idle", "done"}

Succeeded(n) == \E r \in DOMAIN req : req[r].name = n /\ req[r].res = "ok"

\* the call of request r returns res
Finish(r, res, disk) ==
    /\ req' = [req EXCEPT ![r].pc = "done", ![r].res = res,
                          ![r].dirLeft = disk[req[r].name].dir]
    /\ lastRet' = [lastRet EXCEPT ![req[r].name] = res]

Step(r, pc) ==
    /\ req' = [req EXCEPT ![r].pc = pc]
    /\ UNCHANGED lastRet

\* a create request for name n arrives (requests are numbered as they
\* arrive); the server is started once the startup enumeration is over
StartCreate(r, n) ==
    /\ boot.pc = "serve"
    /\ req[r].pc = "idle"
    /\ \A q \in 1..(r - 1) : req[q].pc # "idle"
    /\ req' = [req EXCEPT ![r].pc = "get", ![r].name = n,
                          ![r].afterOk = Succeeded(n), ![r].prev = lastRet[n]]
    /\ UNCHANGED <<pvars, uvars, boot, fs, chan, sentLog, rcvdLog, tasks, lastGet, lastRet>>

\* existingService, err := ds.Get(ctx, name)
CreateGet(r) ==
    /\ req[r].pc = "get"
    /\ LET d == CreateAfterGet(Get(fs, req[r].name))
       IN  IF d = "create" THEN Step(r, "mkdir")
           ELSE IF d = "Conflict" THEN Finish(r, "Conflict", fs)
           ELSE Finish(r, "failed to read descriptor", fs)
    /\ UNCHANGED <<pvars, uvars, boot, fs, chan, sentLog, rcvdLog, tasks, lastGet>>

\* os.MkdirAll(servicePath)
RepoMkdir(r) ==
    /\ req[r].pc = "mkdir"
    /\ \/ /\ MayFail \/ fs[req[r].name].file
          /\ Finish(r, "failed to create directory", fs)
          /\ UNCHANGED fs
       \/ /\ ~fs[req[r].name].file
          /\ fs' = [fs EXCEPT ![req[r].name].dir = TRUE]
          /\ req' = [req EXCEPT ![r].pc = "write", ![r].madeDir = TRUE,
                                ![r].wrote = TRUE]
          /\ UNCHANGED lastRet
    /\ UNCHANGED <<pvars, uvars, boot, chan, sentLog, rcvdLog, tasks, lastGet>>

\* json.MarshalIndent and os.WriteFile of the descriptor
RepoWrite(r) ==
    /\ req[r].pc = "write"
    /\ \/ /\ MayFail \/ ~fs[req[r].name].dir
          /\ \E e \in {"failed to marshal service", "failed to write file"} :
                Finish(r, e, fs)
          /\ UNCHANGED fs
       \/ /\ fs[req[r].name].dir
          /\ fs' = [fs EXCEPT ![req[r].name].desc = r, ![req[r].name].bad = FALSE]
          /\ Step(r, "mkdirRepo")
    /\ UNCHANGED <<pvars, uvars, boot, chan, sentLog, rcvdLog, tasks, lastGet>>

\* os.MkdirAll(gitRepoPath), which makes the missing parents too
RepoMkdirRepo(r) ==
    /\ req[r].pc = "mkdirRepo"
    /\ \/ /\ MayFail \/ fs[req[r].name].file
          /\ Finish(r, "failed to create directory", fs)
          /\ UNCHANGED fs
       \/ /\ ~fs[req[r].name].file
          /\ fs' = [fs EXCEPT ![req[r].name].dir = TRUE,
                              ![req[r].name].repoDir = TRUE]
          /\ Step(r, "sshKey")
    /\ UNCHANGED <<pvars, uvars, boot, chan, sentLog, rcvdLog, tasks, lastGet>>

\* ssh.NewPublicKeysFromFile
RepoSSHKey(r) ==
    /\ req[r].pc = "sshKey"
    /\ \/ /\ MayFail
          /\ Finish(r, "failed to load ssh key", fs)
       \/ Step(r, "clone")
    /\ UNCHANGED <<pvars, uvars, boot, fs, chan, sentLog, rcvdLog, tasks, lastGet>>

\* ds.gitClient.Clone: fails when the directory already holds a repository
CloneOK(disk, n) == disk[n].clone = 0 /\ ~disk[n].file

\* mutant: the token is sent whatever the clone returned
AfterClone_AlwaysSend(ok) == "send"

\* where create goes after the clone: to the send of service.Create when
\* repo.Create returns nil, else to the cleanup
AfterClone(ok) == IF ok THEN "send" ELSE "cleanup"

RepoClone(r) ==
    /\ req[r].pc = "clone"
    /\ \/ /\ MayFail \/ ~CloneOK(fs, req[r].name)
          /\ Step(r, AfterClone(FALSE))
          /\ UNCHANGED fs
       \/ /\ CloneOK(fs, req[r].name)
          /\ fs' = [fs EXCEPT ![req[r].name].dir = TRUE,
                              ![req[r].name].repoDir = TRUE,
                              ![req[r].name].clone = r]
          /\ req' = [req EXCEPT ![r].pc = AfterClone(TRUE), ![r].stored = TRUE]
          /\ UNCHANGED lastRet
    /\ UNCHANGED <<pvars, uvars, boot, chan, sentLog, rcvdLog, tasks, lastGet>>

\* mutant: only the repo/ directory is removed
RemoveAll_RepoOnly(disk, n) ==
    [disk EXCEPT ![n].repoDir = FALSE, ![n].clone = 0]

\* os.RemoveAll(servicePath)
RemoveAll(disk, n) == [disk EXCEPT ![n] = Absent]

\* the clone failed: os.RemoveAll(servicePath), itself able to fail
RepoCleanup(r) ==
    /\ req[r].pc = "cleanup"
    /\ \/ /\ MayFail
          /\ Finish(r, "failed to clean up service file", fs)
          /\ UNCHANGED fs
       \/ /\ fs' = RemoveAll(fs, req[r].name)
          /\ Finish(r, "failed to clone repo", fs')
    /\ UNCHANGED <<pvars, uvars, boot, chan, sentLog, rcvdLog, tasks, lastGet>>

\* channel <- tok, once the channel has room
Send(ch, tok) == Append(ch, tok)

\* mutant: a sender never blocks
CanSend_Always(ch) == TRUE

\* a send blocks while the buffer of the channel is full
CanSend(ch) == Len(ch) < ChannelCapacity

\* mutant: one task per name
Spawn_Dedup(t, n) == [t EXCEPT ![n] = 1]

\* go processBackgroundJob(ctx, interval, backgroundProcessor, service)
Spawn(t, n) == [t EXCEPT ![n] = @ + 1]

\* ds.backgroundJobChannel <- service; return nil
CreateSend(r) ==
    /\ req[r].pc = "send"
    /\ CanSend(chan)
    /\ chan' = Send(chan, req[r].name)
    /\ sentLog' = Append(sentLog, req[r].name)
    /\ UNCHANGED rcvdLog
    /\ req' = [req EXCEPT ![r].pc = "done", ![r].res = "ok", ![r].sent = TRUE,
                          ![r].dirLeft = fs[req[r].name].dir]
    /\ lastRet' = [lastRet EXCEPT ![req[r].name] = "ok"]
    /\ UNCHANGED <<pvars, uvars, boot, fs, tasks, lastGet>>

\* for service := range serviceChannel { go processBackgroundJob(...) }
Admit ==
    /\ chan # <<>>
    /\ tasks' = Spawn(tasks, chan[1])
    /\ chan' = Tail(chan)
    /\ rcvdLog' = Append(rcvdLog, chan[1])
    /\ UNCHANGED <<pvars, uvars, boot, fs, req, sentLog, lastGet, lastRet>>

\* a get request for name n
GetCall(n) ==
    /\ lastGet' = [name |-> n, res |-> Get(fs, n)]
    /\ UNCHANGED <<pvars, uvars, boot, fs, req, chan, sentLog, rcvdLog, tasks, lastRet>>

(***************************************************************************)
(* Specifications of the catalog: Spec handles the create requests         *)
(* concurrently, one intake task each; SpecSeq one after the other.        *)
(***************************************************************************)
PipeIdle ==
    /\ svcKind = "npm"
    /\ remoteLog = <<>>
    /\ remoteTags = {}
    /\ localLog = <<>>
    /\ localTags = {}
    /\ fileVer = NoVer
    /\ nextId = 1
    /\ tpc = "wait"
    /\ nextVersion = NoVer
    /\ passErr = ""
    /\ passes = FALSE
    /\ headTagged = FALSE
    /\ effects = {}
    /\ images = {}
    /\ registry = {}
    /\ envFile = FALSE
    /\ composeVer = NoVer
    /\ clients = {}
    /\ TaskFresh
    /\ faults = TRUE

Init ==
    /\ PipeIdle
    /\ UtilIdle
    /\ fs = [n \in CatNames |-> Absent]
    /\ req = [r \in Reqs |-> NoReq]
    /\ chan = <<>>
    /\ sentLog = <<>>
    /\ rcvdLog = <<>>
    /\ boot = Serving
    /\ tasks = [n \in CatNames |-> 0]
    /\ lastGet = NoGet
    /\ lastRet = [n \in CatNames |-> ""]

Next ==
    \/ \E r \in Reqs, n \in CatNames : StartCreate(r, n)
    \/ \E r \in Reqs : CreateGet(r)
    \/ \E r \in Reqs : RepoMkdir(r)
    \/ \E r \in Reqs : RepoWrite(r)
    \/ \E r \in Reqs : RepoMkdirRepo(r)
    \/ \E r \in Reqs : RepoSSHKey(r)
    \/ \E r \in Reqs : RepoClone(r)
    \/ \E r \in Reqs : RepoCleanup(r)
    \/ \E r \in Reqs : CreateSend(r)
    \/ Admit
    \/ \E n \in CatNames : GetCall(n)

Spec == Init /\ [][Next]_vars

\* no other create call is in progress
Sequential == \A r \in DOMAIN req : ~InFlight(r)

SeqNext ==
    \/ \E r \in Reqs, n \in CatNames : Sequential /\ StartCreate(r, n)
    \/ \E r \in Reqs : CreateGet(r)
    \/ \E r \in Reqs : RepoMkdir(r)
    \/ \E r \in Reqs : RepoWrite(r)
    \/ \E r \in Reqs : RepoMkdirRepo(r)
    \/ \E r \in Reqs : RepoSSHKey(r)
    \/ \E r \in Reqs : RepoClone(r)
    \/ \E r \in Reqs : RepoCleanup(r)
    \/ \E r \in Reqs : CreateSend(r)
    \/ Admit
    \/ \E n \in CatNames : GetCall(n)

SpecSeq == Init /\ [][SeqNext]_vars

(***************************************************************************)
(* C3: there is at most one reconciliation task per service name, also     *)
(* when create requests for one name are handled concurrently.             *)
(***************************************************************************)
C3_OneTaskPerName == \A n \in CatNames : tasks[n] <= 1

(***************************************************************************)
(* C4: of two create calls for one name made one after the other, the one  *)
(* made after the other has succeeded returns Conflict, changes nothing    *)
(* under <root>/<name>/ and enqueues no admission token.                   *)
(***************************************************************************)
C4_SecondCreateConflicts ==
    \A r \in Reqs :
        req[r].afterOk =>
            /\ req[r].pc \in {"get", "done"}
            /\ req[r].pc = "done" => req[r].res = "Conflict"
            /\ ~req[r].wrote
            /\ ~req[r].sent

C4_Witness ==
    \E r \in Reqs :
        /\ req[r].afterOk
        /\ req[r].pc = "done"
        /\ req[r].res = "Conflict"
        /\ fs[req[r].name].clone # 0

(***************************************************************************)
(* C5: when Catalog Store create returns an error after it has created     *)
(* <root>/<name>/, that directory does not exist when the call returns.    *)
(***************************************************************************)
C5_FailedCreateLeavesNoDirectory ==
    \A r \in Reqs :
        (req[r].pc = "done" /\ req[r].madeDir /\ req[r].res # "ok")
            => ~req[r].dirLeft

(***************************************************************************)
(* C6: when the clone of a create fails after the descriptor was written,  *)
(* create returns an error, <root>/<name>/ is absent afterwards, a         *)
(* following get returns NotFound and a later create of the name is not    *)
(* rejected as a conflict.                                                 *)
(***************************************************************************)
CloneFailures == {"failed to clone repo", "failed to clean up service file"}

C7_GetShowsOnlyCreatedServices ==
    lastGet.res = "record" => Succeeded(lastGet.name)


(***************************************************************************)
(* C11: CalculateNextVersion adopts as base the nearest commit reached     *)
(* from HEAD that carries a semver-named tag, annotated or lightweight:    *)
(* the walk stops there (at HEAD: with no conventional commit seen) and    *)
(* the version returned is a bump of that tag's version.                   *)
(***************************************************************************)
C11_LightweightTagIsBase ==
    LET i == BaseIndex(localLog, localTags)
        T == SemverTagsAt(localLog, localTags, i)
    IN  (/\ tpc # "calculate"
         /\ i > 0
         /\ \A m \in Since(localLog, localTags) : commitRegex(m))
        => IF i = Len(localLog)
           THEN passErr = "no conventional commit type found"
           ELSE /\ passErr = ""
                /\ \E t \in T :
                      nextVersion \in {IncMajor(t.name.v), IncMinor(t.name.v),
                                       IncPatch(t.name.v)}

(***************************************************************************)
(* C12: the step-2 check counts a tag at HEAD as 'already released' if and *)
(* only if its name is one the calculator accepts as a base version, that  *)
(* is a name matching ^\d+\.\d+\.\d+$; a name with a 'v' prefix, with      *)
(* fewer than three components or with a pre-release suffix is a release   *)
(* tag for neither.                                                        *)
(***************************************************************************)
C12_SameSemverRecognition ==
    (tpc = "calculate" \/ (PassReturned /\ headTagged))
        => (headTagged <=>
               \E t \in localTags :
                   t.target = HeadCommit(localLog).id /\ semverRegex(t.name))

(***************************************************************************)
(* C13: when a step of a pass fails, from the mutation of the versioned    *)
(* file (a failed write of the modified file included) to the last step,   *)
(* ProcessService returns an error at that step and no later step of the   *)
(* pass is executed.                                                       *)
(***************************************************************************)
\* the writes of the steps that come after step s in a pass
LaterEffects(s) ==
    LET order == <<"mutate", "commit", "pushCommit", "tag", "pushTags", "build",
                   "pushImage", "env", "compose", "client">>
        write == <<"file", "commit", "pushCommit", "tag", "pushTag", "build",
                   "pushImage", "env", "compose", "client">>
    IN  {write[j] : j \in {k \in 1..Len(order) :
                              \E i \in 1..Len(order) : order[i] = s /\ i < k}}

C13_FailedStepAbortsPass ==
    failedAt \in {"mutate", "commit", "pushCommit", "tag", "pushTags", "build",
                  "pushImage", "env", "compose", "client"}
        => /\ tpc = "wait"
           /\ passErr # ""
           /\ effects \cap LaterEffects(failedAt) = {}


(***************************************************************************)
(* Specification of one reconciliation task with its ticker and the        *)
(* process-wide context: ticks fire while a pass runs, the context is      *)
(* cancelled at any moment.  A pass that has begun runs on to its return,  *)
(* a tick that waits in ticker.C is received, and the select, which picks  *)
(* at random among its ready cases, does not pass over ctx.Done() forever. *)
(***************************************************************************)
\* the ticker fires while a pass is running: ticker.C holds one tick, a
\* further tick is dropped
TickerFire ==
    /\ tpc \notin {"wait", "exited"}
    /\ ~tickPending
    /\ tickPending' = TRUE
    /\ UNCHANGED <<cvars, uvars, cancelled, svcKind, git, fileVer, tpc, nextVersion, passErr,
                   passes, failedAt, stepsRun, headTagged, effects, artifacts, faults>>

\* case <-ticker.C: the select takes the tick that waits in ticker.C
TakeTick ==
    /\ TaskAtSelect
    /\ tickPending
    /\ StartPass
    /\ tickPending' = FALSE

\* the process-wide context is cancelled
Cancel ==
    /\ ~cancelled
    /\ cancelled' = TRUE
    /\ UNCHANGED <<cvars, uvars, tickPending, svcKind, git, fileVer, tpc, nextVersion, passErr,
                   passes, failedAt, stepsRun, headTagged, effects, artifacts, faults>>

\* case <-ctx.Done(): return
Exit ==
    /\ TaskAtSelect
    /\ cancelled
    /\ tpc' = "exited"
    /\ UNCHANGED <<cvars, uvars, ctl, svcKind, git, fileVer, nextVersion, passErr, passes,
                   failedAt, stepsRun, headTagged, effects, artifacts, faults>>

TaskNext ==
    \/ Tick
    \/ TakeTick
    \/ ShouldProcess
    \/ Calculate
    \/ Mutate
    \/ CommitChanges
    \/ PushCommit
    \/ CreateTag
    \/ PushTags
    \/ BuildImage
    \/ PushImage
    \/ WriteEnvFile
    \/ ComposeUp
    \/ PublishClient
    \/ TickerFire
    \/ Cancel
    \/ Exit
    \/ ClearFaults

SpecTask ==
    /\ RetryInit
    /\ [][TaskNext]_vars
    /\ WF_vars(TaskStep \/ TakeTick)
    /\ SF_vars(Exit)

(***************************************************************************)
(* C14: an error returned by ProcessService never ends the task: the task  *)
(* leaves its loop only when the context is cancelled, after a failed pass *)
(* a next tick calls ProcessService again, and that pass starts with       *)
(* nothing kept of the failed one.                                         *)
(***************************************************************************)
C14_ErrorDoesNotEndTask ==
    /\ [](tpc = "exited" => cancelled)
    /\ [](tpc = "shouldProcess" =>
             (nextVersion = NoVer /\ effects = {} /\ failedAt = "" /\ ~headTagged))
    /\ []((PassReturned /\ passErr # "") => <>(tpc = "shouldProcess" \/ cancelled))

C14_Witness ==
    /\ tpc = "shouldProcess"
    /\ passes
    /\ passErr # ""
    /\ ~cancelled

(***************************************************************************)
(* C15: once the context is cancelled the task eventually exits, and it    *)
(* starts no new pass after the cancellation, not even for a tick that was *)
(* pending when the context was cancelled.                                 *)
(***************************************************************************)
\* the pass in progress is at its commit and the commit ids of the model
\* are used up
OutOfCommits == tpc = "commit" /\ nextId > MaxCommits

C15_NoPassAfterCancel ==
    /\ [](cancelled => <>(tpc = "exited" \/ OutOfCommits))
    /\ [][cancelled => ~(tpc = "wait" /\ tpc' = "shouldProcess")]_vars

\* the first half of C15 alone
C15_TaskEventuallyExits == [](cancelled => <>(tpc = "exited" \/ OutOfCommits))

(***************************************************************************)
(* C16: a pass of a task starts only after the previous one has returned,  *)
(* also when ticks fire while a pass is running, and the steps of a pass   *)
(* run in the order sync and should-process, compute version, mutate,      *)
(* commit, tag, build-and-publish.                                         *)
(***************************************************************************)
PassOrder(kind) ==
    <<"tick", "shouldProcess", "calculate", "mutate", "commit", "pushCommit",
      "tag", "pushTags">>
        \o (IF kind = "npm" THEN <<"build", "pushImage", "env", "compose">>
            ELSE <<"client">>)

C16_PassesDoNotOverlap == IsPrefix(stepsRun, PassOrder(svcKind))

C16_Witness ==
    /\ tickPending
    /\ tpc = "compose"
    /\ stepsRun = SubSeq(PassOrder("npm"), 1, 11)


(***************************************************************************)
(* C17: service-level Create sends an admission token only after Catalog   *)
(* Store create has succeeded (descriptor written, clone completed), it    *)
(* returns success only when that send has completed, and it sends no      *)
(* token on a path on which it returns an error.                           *)
(***************************************************************************)
C17_TokenOnlyAfterStoredCreate ==
    /\ \A r \in Reqs :
          /\ req[r].sent => (req[r].stored /\ req[r].wrote)
          /\ req[r].res = "ok" <=> req[r].sent
          /\ (req[r].pc = "done" /\ req[r].res # "ok") => ~req[r].sent
    /\ Len(sentLog) = Cardinality({r \in Reqs : req[r].sent})

C17_Witness ==
    \E r, q \in Reqs :
        /\ req[r].res = "ok" /\ req[r].sent
        /\ req[q].pc = "done" /\ req[q].res = "failed to clone repo"

(***************************************************************************)
(* Startup of the process (main): the supervisor is started, then          *)
(* CollectExistingServicesForBackgroundProcessing lists the catalog and    *)
(* sends one token per service listed, then the server is started and      *)
(* create requests arrive.                                                 *)
(***************************************************************************)
\* services in the catalog when the process starts
MaxExisting == 101

\* ds.List(ctx, 100, "")
ListMax == 100

\* the name of the i-th directory of the catalog root
ExistingName(i) == ToString(i)

\* mutant: a directory that cannot be read ends the enumeration without an
\* error
List_StopsAtUnreadable(dirEntries, maxResults, nextToken) ==
    LET dirs == SelectSeq([i \in 1..Len(dirEntries) |-> i], LAMBDA i : dirEntries[i].dir)
        ends(k) == Get(dirEntries, dirs[k]) # "record" \/ k >= maxResults
        last == IF \E k \in 1..Len(dirs) : ends(k)
                THEN CHOOSE k \in 1..Len(dirs) : ends(k) /\ \A j \in 1..(k - 1) : ~ends(j)
                ELSE Len(dirs)
    IN  IF last >= 1 /\ Get(dirEntries, dirs[last]) # "record"
        THEN [err |-> "", services |-> SubSeq(dirs, 1, last - 1)]
        ELSE [err |-> "", services |-> SubSeq(dirs, 1, last)]

\* repo.List: dirEntries is what os.ReadDir(ds.filePath) returns, a service
\* is named by the place of its directory in it; nextToken is not read.
\* The loop skips the entries that are not directories; at the k-th
\* directory it calls Get, returns the error if there is one, else counts
\* and appends the record (counter = k) and breaks when counter >= maxResults:
\* it ends at the first directory where Get fails or k >= maxResults.
List(dirEntries, maxResults, nextToken) ==
    LET dirs == SelectSeq([i \in 1..Len(dirEntries) |-> i],
                          LAMBDA i : dirEntries[i].dir)
        ends(k) == Get(dirEntries, dirs[k]) # "record" \/ k >= maxResults
        last == IF \E k \in 1..Len(dirs) : ends(k)
                THEN CHOOSE k \in 1..Len(dirs) :
                        ends(k) /\ \A j \in 1..(k - 1) : ~ends(j)
                ELSE Len(dirs)
    IN  IF last >= 1 /\ Get(dirEntries, dirs[last]) # "record"
        THEN [err |-> "failed to read descriptor", services |-> <<>>]
        ELSE [err |-> "", services |-> SubSeq(dirs, 1, last)]

\* the catalog root main finds: n services, after a directory without
\* descriptor when partial
BootEntries(n, partial) ==
    (IF partial THEN <<EmptyDir>> ELSE <<>>) \o [i \in 1..n |-> StoredDir]

\* services, err := ds.List(ctx, 100, ""); an error is fatal to the process
BootList ==
    /\ boot.pc = "list"
    /\ \E l \in {List(BootEntries(boot.n, boot.partial), ListMax, "")} :
          boot' = IF l.err # "" THEN [boot EXCEPT !.pc = "fatal"]
                  ELSE [boot EXCEPT !.pc = "send", !.listed = Len(l.services)]
    /\ UNCHANGED <<pvars, uvars, fs, req, chan, sentLog, rcvdLog, tasks, lastGet, lastRet>>

\* for _, service := range services { ds.backgroundJobChannel <- service }
BootSend ==
    /\ boot.pc = "send"
    /\ boot.idx < boot.listed
    /\ CanSend(chan)
    /\ chan' = Send(chan, ExistingName(boot.idx + 1))
    /\ sentLog' = Append(sentLog, ExistingName(boot.idx + 1))
    /\ boot' = [boot EXCEPT !.idx = @ + 1]
    /\ UNCHANGED <<pvars, uvars, fs, req, rcvdLog, tasks, lastGet, lastRet>>

\* the enumeration returns nil and main starts the server
BootServe ==
    /\ boot.pc = "send"
    /\ boot.idx = boot.listed
    /\ boot' = [boot EXCEPT !.pc = "serve"]
    /\ UNCHANGED <<pvars, uvars, fs, req, chan, sentLog, rcvdLog, tasks, lastGet, lastRet>>

StartInit ==
    /\ PipeIdle
    /\ UtilIdle
    /\ fs = [n \in CatNames |-> Absent]
    /\ req = [r \in {1} |-> NoReq]
    /\ chan = <<>>
    /\ sentLog = <<>>
    /\ rcvdLog = <<>>
    /\ \E n \in {0, 2, MaxExisting - 1, MaxExisting}, p \in BOOLEAN :
          boot = [pc |-> "list", n |-> n, partial |-> p, listed |-> 0, idx |-> 0]
    /\ tasks = [n \in CatNames \cup {ExistingName(i) : i \in 1..MaxExisting} |-> 0]
    /\ lastGet = NoGet
    /\ lastRet = [n \in CatNames |-> ""]

StartNext ==
    \/ BootList
    \/ BootSend
    \/ BootServe
    \/ \E r \in DOMAIN req, n \in CatNames : StartCreate(r, n)
    \/ \E r \in DOMAIN req : CreateGet(r)
    \/ \E r \in DOMAIN req : RepoMkdir(r)
    \/ \E r \in DOMAIN req : RepoWrite(r)
    \/ \E r \in DOMAIN req : RepoMkdirRepo(r)
    \/ \E r \in DOMAIN req : RepoSSHKey(r)
    \/ \E r \in DOMAIN req : RepoClone(r)
    \/ \E r \in DOMAIN req : RepoCleanup(r)
    \/ \E r \in DOMAIN req : CreateSend(r)
    \/ Admit

\* main, the supervisor and a sender whose channel has room keep running
SpecStart ==
    /\ StartInit
    /\ [][StartNext]_vars
    /\ WF_vars(BootList \/ BootSend \/ BootServe)
    /\ WF_vars(Admit)
    /\ WF_vars(\E r \in DOMAIN req : CreateSend(r))

(***************************************************************************)
(* C18: the admission channel never holds more than 100 tokens, a sender   *)
(* that finds it full waits for the supervisor to receive, and the tokens  *)
(* received so far followed by the tokens in the channel are exactly the   *)
(* tokens sent, in the order of the sends: none dropped, none duplicated,  *)
(* first in first out.                                                     *)
(***************************************************************************)
C18_ChannelBoundedFifo ==
    /\ Len(chan) <= ChannelCapacity
    /\ sentLog = rcvdLog \o chan

C18_Witness ==
    /\ Len(chan) = ChannelCapacity
    /\ \E r \in DOMAIN req : req[r].pc = "send"

(***************************************************************************)
(* Specification of the admission: the create requests are handled         *)
(* concurrently and the supervisor's loop keeps running.                   *)
(***************************************************************************)
AdmitNext ==
    \/ \E r \in Reqs, n \in CatNames : StartCreate(r, n)
    \/ \E r \in Reqs : CreateGet(r)
    \/ \E r \in Reqs : RepoMkdir(r)
    \/ \E r \in Reqs : RepoWrite(r)
    \/ \E r \in Reqs : RepoMkdirRepo(r)
    \/ \E r \in Reqs : RepoSSHKey(r)
    \/ \E r \in Reqs : RepoClone(r)
    \/ \E r \in Reqs : RepoCleanup(r)
    \/ \E r \in Reqs : CreateSend(r)
    \/ Admit

SpecAdmit == Init /\ [][AdmitNext]_vars /\ WF_vars(Admit)

\* occurrences of token n in the sequence s
RECURSIVE Count(_, _)
Count(s, n) ==
    IF s = <<>> THEN 0
    ELSE (IF s[1] = n THEN 1 ELSE 0) + Count(Tail(s), n)

(***************************************************************************)
(* C19: the supervisor starts exactly one reconciliation task per token it *)
(* receives, two tokens of one name giving two tasks, and every token sent *)
(* on the channel is eventually received.                                  *)
(***************************************************************************)
C19_OneTaskPerToken ==
    /\ [](\A n \in CatNames : tasks[n] = Count(rcvdLog, n))
    /\ \A k \in 1..MaxReq : [](Len(sentLog) >= k => <>(Len(rcvdLog) >= k))

C19_Witness ==
    \E n \in CatNames : tasks[n] = 2 /\ Count(rcvdLog, n) = 2

(***************************************************************************)
(* C20: every service in the catalog when the process starts eventually    *)
(* has a reconciliation task, however many services are catalogued, and so *)
(* has every service created at runtime.                                   *)
(***************************************************************************)
C20_EveryServiceGetsTask ==
    /\ []((boot.pc = "list" /\ ~boot.partial)
            => <>(\A i \in 1..boot.n : tasks[ExistingName(i)] >= 1))
    /\ \A n \in CatNames : [](Succeeded(n) => <>(tasks[n] >= 1))

\* C20 for a catalog of at most 100 services
C20_UpToListMax ==
    /\ []((boot.pc = "list" /\ ~boot.partial /\ boot.n <= ListMax)
            => <>(\A i \in 1..boot.n : tasks[ExistingName(i)] >= 1))
    /\ \A n \in CatNames : [](Succeeded(n) => <>(tasks[n] >= 1))


(***************************************************************************)
(* C21: once create(S) has succeeded, get(S.name) returns a record whose   *)
(* id, name, git_ssh_url, branch_name and configuration are those of S and *)
(* whose working tree path is <root>/<S.name>/repo (list and the startup   *)
(* enumeration deliver the record get returns).                            *)
(***************************************************************************)
C21_GetReturnsCreatedRecord ==
    \A r \in DOMAIN req :
        req[r].res = "ok" =>
            /\ Get(fs, req[r].name) = "record"
            /\ LET g == GetRecord(fs, req[r].name)
                   S == ServiceOf(r, req[r].name)
               IN  /\ g.ID = S.ID
                   /\ g.Name = S.Name
                   /\ g.GitSSHUrl = S.GitSSHUrl
                   /\ g.GitBranchName = S.GitBranchName
                   /\ g.Configuration = S.Configuration
                   /\ g.GitRepoFilePath = getGitRepoFilePath(S.Name)

(***************************************************************************)
(* C24: the create of the Catalog Store (repo.Create) called for a name    *)
(* whose directory <root>/<name>/ exists returns an error, and leaves what *)
(* is on disk for that name as it was.                                     *)
(***************************************************************************)
C24_CreateRejectsExistingDirectory ==
    [][\A r \in DOMAIN req :
          (req[r].pc = "mkdir" /\ fs[req[r].name].dir /\ req'[r] # req[r])
              => /\ req'[r].pc = "done"
                 /\ req'[r].res # "ok"
                 /\ fs'[req[r].name] = fs[req[r].name]]_vars


(***************************************************************************)
(* Specification of the catalog over a root that is not empty when the     *)
(* process starts: under a name there may be nothing, a file that is not a *)
(* directory, a directory without descriptor, a directory whose descriptor *)
(* does not parse, or a service stored by an earlier run.  Two create      *)
(* requests are handled concurrently, and get requests arrive at any time. *)
(***************************************************************************)
CatInit ==
    /\ PipeIdle
    /\ UtilIdle
    /\ fs \in [CatNames -> Entries]
    /\ req = [r \in 1..2 |-> NoReq]
    /\ chan = <<>>
    /\ sentLog = <<>>
    /\ rcvdLog = <<>>
    /\ boot = Serving
    /\ tasks = [n \in CatNames |-> 0]
    /\ lastGet = NoGet
    /\ lastRet = [n \in CatNames |-> ""]

CatNext ==
    \/ \E r \in DOMAIN req, n \in CatNames : StartCreate(r, n)
    \/ \E r \in DOMAIN req : CreateGet(r)
    \/ \E r \in DOMAIN req : RepoMkdir(r)
    \/ \E r \in DOMAIN req : RepoWrite(r)
    \/ \E r \in DOMAIN req : RepoMkdirRepo(r)
    \/ \E r \in DOMAIN req : RepoSSHKey(r)
    \/ \E r \in DOMAIN req : RepoClone(r)
    \/ \E r \in DOMAIN req : RepoCleanup(r)
    \/ \E r \in DOMAIN req : CreateSend(r)
    \/ Admit
    \/ \E n \in CatNames : GetCall(n)

SpecCat == CatInit /\ [][CatNext]_vars

MaxEntries == 3

Tokens == {"", "t"}

ListInit ==
    /\ PipeIdle
    /\ CatalogIdle
    /\ \E k \in 0..MaxEntries : ufs \in [1..k -> Entries \ {Absent}]
    /\ \E m \in 0..(MaxEntries + 1), t \in Tokens :
          call = [fn |-> "List", pc |-> "call", maxResults |-> m, nextToken |-> t]
    /\ ret = <<>>

\* services, err := ds.service.List(ctx, maxResults, nextToken)
ListCall ==
    /\ call.fn = "List"
    /\ call.pc = "call"
    /\ ret' = List(ufs, call.maxResults, call.nextToken)
    /\ call' = [call EXCEPT !.pc = "done"]
    /\ UNCHANGED <<pvars, cvars, ufs>>

\* the next list request
ListAgain ==
    /\ call.fn = "List"
    /\ call.pc = "done"
    /\ \E m \in 0..(MaxEntries + 1), t \in Tokens :
          call' = [call EXCEPT !.pc = "call", !.maxResults = m, !.nextToken = t]
    /\ UNCHANGED <<pvars, cvars, ufs, ret>>

ListNext == ListCall \/ ListAgain

SpecList == ListInit /\ [][ListNext]_vars

\* the subdirectories of the root, in the order of os.ReadDir
Subdirs(dirEntries) ==
    SelectSeq([i \in 1..Len(dirEntries) |-> i], LAMBDA i : dirEntries[i].dir)

ListReturned == call.fn = "List" /\ call.pc = "done" /\ ret.err = ""

(***************************************************************************)
(* C23: for every maxResults >= 0, a list that returns records returns at  *)
(* most maxResults of them: those of the first min(maxResults, n) of the n *)
(* subdirectories of the root, in the order of the filesystem, entries     *)
(* that are not directories skipped; and the result is the same whatever   *)
(* nextToken is.                                                           *)
(***************************************************************************)
C23_ListAtMostMaxResults ==
    ListReturned =>
        LET sub == Subdirs(ufs)
            k == IF call.maxResults < Len(sub) THEN call.maxResults ELSE Len(sub)
        IN  /\ Len(ret.services) <= call.maxResults
            /\ ret.services = SubSeq(sub, 1, k)
            /\ \A t \in Tokens : List(ufs, call.maxResults, t) = ret

\* C23 for maxResults >= 1
C23_PositiveMaxResults ==
    (ListReturned /\ call.maxResults >= 1) =>
        LET sub == Subdirs(ufs)
            k == IF call.maxResults < Len(sub) THEN call.maxResults ELSE Len(sub)
        IN  /\ Len(ret.services) <= call.maxResults
            /\ ret.services = SubSeq(sub, 1, k)
            /\ \A t \in Tokens : List(ufs, call.maxResults, t) = ret


(***************************************************************************)
(* Service Intake: model.Service.FromCreateRequest.  The configuration of  *)
(* a create payload is a union; each variant of it is <<>> when the        *)
(* payload does not populate it, else the one-element sequence of its      *)
(* body.                                                                   *)
(***************************************************************************)
NpmBodies ==
    [EnvPath : {".env"}, DockerfilePath : {"Dockerfile"},
     DockerComposePath : {"compose.yaml", "docker-compose.yml"}]

OpenapiBodies ==
    [YamlFile : {"api.yaml"}, TypescriptClient : {<<>>, <<"ts-client">>},
     GoClient : {<<>>, <<"go-client">>}]

CreateRequests ==
    [name : CatNames, branch : {"main", "develop"},
     npm : {<<>>} \cup {<<b>> : b \in NpmBodies},
     openapi : {<<>>} \cup {<<b>> : b \in OpenapiBodies}]

\* the error type of the model package for a variant the payload lacks
unionMemberNotPresent == "unionMemberNotPresent"

\* serviceConfig.AsNPMConfiguration() and then npmConfiguration.Npm.AsNPMService():
\* a json.SyntaxError when the payload has no npm variant
AsNPMService(cfg) ==
    IF cfg.npm = <<>> THEN [err |-> "json.SyntaxError", body |-> <<>>]
    ELSE [err |-> "", body |-> cfg.npm]

\* serviceConfig.AsOpenAPIConfiguration(): a json.SyntaxError when the payload
\* has no openapi variant
AsOpenAPIConfiguration(cfg) ==
    IF cfg.openapi = <<>> THEN [err |-> "json.SyntaxError", body |-> <<>>]
    ELSE [err |-> "", body |-> cfg.openapi]

handleNpmConfiguration(cfg) ==
    LET a == AsNPMService(cfg)
    IN  IF a.err = "json.SyntaxError"
        THEN [err |-> unionMemberNotPresent, config |-> <<>>]
        ELSE IF a.err # "" THEN [err |-> a.err, config |-> <<>>]
        ELSE [err |-> "",
              config |-> <<[Npm |-> <<[Service |-> a.body[1]]>>, OpenAPI |-> <<>>]>>]

handleOpenApiconfiugration(cfg) ==
    LET a == AsOpenAPIConfiguration(cfg)
    IN  IF a.err = "json.SyntaxError"
        THEN [err |-> unionMemberNotPresent, config |-> <<>>]
        ELSE IF a.err # "" THEN [err |-> a.err, config |-> <<>>]
        ELSE [err |-> "",
              config |-> <<[Npm |-> <<>>, OpenAPI |-> <<[OpenAPI |-> a.body[1]]>>]>>]

\* the npm variant is tried first and returned when it is there; the openapi
\* variant is tried only when the npm variant is not present
generateServiceConfiguration(cfg) ==
    LET n == handleNpmConfiguration(cfg)
        o == handleOpenApiconfiugration(cfg)
    IN  IF n.err \notin {"", unionMemberNotPresent} THEN n
        ELSE IF n.config # <<>> THEN [n EXCEPT !.err = ""]
        ELSE IF o.err \notin {"", unionMemberNotPresent} THEN o
        ELSE IF o.config # <<>> THEN [o EXCEPT !.err = ""]
        ELSE [err |-> "invalid config provided", config |-> <<>>]

\* s.FromCreateRequest(dto): the error, or the service record
FromCreateRequest(dto) ==
    LET c == generateServiceConfiguration(dto)
    IN  IF c.err # "" THEN [err |-> c.err, svc |-> <<>>]
        ELSE [err |-> "",
              svc |-> <<[Name |-> dto.name, GitSSHUrl |-> <<"git@host", dto.name>>,
                         GitBranchName |-> dto.branch, GitRepoFilePath |-> "",
                         Configuration |-> c.config[1]]>>]

IntakeInit ==
    /\ PipeIdle
    /\ CatalogIdle
    /\ ufs = <<>>
    /\ \E dto \in CreateRequests :
          call = [fn |-> "FromCreateRequest", pc |-> "call", dto |-> dto]
    /\ ret = <<>>

\* service.FromCreateRequest(request.Body) of the controller
IntakeCall ==
    /\ call.fn = "FromCreateRequest"
    /\ call.pc = "call"
    /\ ret' = FromCreateRequest(call.dto)
    /\ call' = [call EXCEPT !.pc = "done"]
    /\ UNCHANGED <<pvars, cvars, ufs>>

\* the next create request
IntakeAgain ==
    /\ call.fn = "FromCreateRequest"
    /\ call.pc = "done"
    /\ \E dto \in CreateRequests : call' = [call EXCEPT !.pc = "call", !.dto = dto]
    /\ UNCHANGED <<pvars, cvars, ufs, ret>>

IntakeNext == IntakeCall \/ IntakeAgain

SpecIntake == IntakeInit /\ [][IntakeNext]_vars

\* the variants a payload populates
Populated(dto) ==
    {v \in {"npm", "openapi"} : IF v = "npm" THEN dto.npm # <<>> ELSE dto.openapi # <<>>}

(***************************************************************************)
(* C25: the intake returns an error for a create payload whose             *)
(* configuration populates no variant or more than one, and every service  *)
(* record it accepts has exactly one of the Npm and OpenAPI variants       *)
(* populated.                                                              *)
(***************************************************************************)
C25_ExactlyOneVariant ==
    (call.fn = "FromCreateRequest" /\ call.pc = "done") =>
        /\ Cardinality(Populated(call.dto)) # 1 => ret.err # ""
        /\ ret.err = "" =>
              (ret.svc[1].Configuration.Npm = <<>>)
                  # (ret.svc[1].Configuration.OpenAPI = <<>>)

\* C25 without the payloads that populate both variants
C25_AcceptedHasOneVariant ==
    (call.fn = "FromCreateRequest" /\ call.pc = "done") =>
        /\ Populated(call.dto) = {} => ret.err # ""
        /\ ret.err = "" =>
              (ret.svc[1].Configuration.Npm = <<>>)
                  # (ret.svc[1].Configuration.OpenAPI = <<>>)


(***************************************************************************)
(* The env file writer (envFileWriter.WriteEnvFile).  A key is a string,   *)
(* modelled as the sequence of its bytes; a value is a string, a number or *)
(* a boolean of the decoded request.                                       *)
(***************************************************************************)
EnvKeys == {<<65>>, <<65, 66>>, <<66>>}

EnvValues == {[t |-> "string", v |-> "x"], [t |-> "number", v |-> 8080]}

\* map[string]any
EnvMaps == UNION {[K -> EnvValues] : K \in SUBSET EnvKeys}

\* a < b for strings, byte by byte, as sort.Strings compares
StringLess(a, b) ==
    \E i \in 1..(Len(b)) :
        /\ \A j \in 1..(i - 1) : j <= Len(a) /\ a[j] = b[j]
        /\ (i > Len(a) \/ (i <= Len(a) /\ a[i] < b[i]))

\* mutant: the keys are taken in descending order
RECURSIVE SortStrings_Descending(_)
SortStrings_Descending(K) ==
    IF K = {} THEN <<>>
    ELSE LET m == CHOOSE k \in K : \A o \in K \ {k} : StringLess(o, k)
         IN  <<m>> \o SortStrings_Descending(K \ {m})

\* sort.Strings(keys)
RECURSIVE SortStrings(_)
SortStrings(K) ==
    IF K = {} THEN <<>>
    ELSE LET m == CHOOSE k \in K : \A o \in K \ {k} : StringLess(k, o)
         IN  <<m>> \o SortStrings(K \ {m})

\* fmt.Sprintf("%v", value)
FormatV(value) == IF value.t = "number" THEN ToString(value.v) ELSE value.v

\* fmt.Sprintf("%s=%v\n", k, envVars[k]): one line of the file
EnvLine(k, value) == <<k, "=", FormatV(value)>>

\* mutant: any path that exists is taken for a directory
StatIsDir_Exists(d) == d.kind # "missing"

\* os.Stat(path) succeeds and info.IsDir()
StatIsDir(d) == d.kind = "dir"

\* os.WriteFile(targetFile, content): the file is created or truncated and
\* the content written
WriteFile(d, content) == [d EXCEPT !.exists = TRUE, !.content = content]

\* WriteEnvFile(ctx, path, envFile, envVars) on the directory d: the error
\* returned and the directory afterwards
envFileWriter_WriteEnvFile(d, c) ==
    IF c.path = "" THEN [err |-> "path cannot be empty", fs |-> d]
    ELSE IF c.envFile = "" THEN [err |-> "envFile cannot be empty", fs |-> d]
    ELSE IF DOMAIN c.envVars = {} THEN [err |-> "", fs |-> d]
    ELSE IF c.ctxDone
         THEN [err |-> "context canceled before writing env file", fs |-> d]
    ELSE IF ~StatIsDir(d)
         THEN [err |-> IF d.kind = "missing" THEN "directory does not exist"
                       ELSE "path is not a directory", fs |-> d]
    ELSE LET keys == SortStrings(DOMAIN c.envVars)
             content == [i \in 1..Len(keys) |-> EnvLine(keys[i], c.envVars[keys[i]])]
         IN  [err |-> "", fs |-> WriteFile(d, content)]

\* what is at path when the writer is called: nothing, a file, or a
\* directory with or without an env file in it
EnvDirs ==
    {[kind |-> "missing", exists |-> FALSE, content |-> <<>>],
     [kind |-> "file", exists |-> FALSE, content |-> <<>>],
     [kind |-> "dir", exists |-> FALSE, content |-> <<>>],
     [kind |-> "dir", exists |-> TRUE, content |-> <<<<<<79>>, "=", "old">>>>]}

EnvCalls ==
    [fn : {"WriteEnvFile"}, pc : {"call"}, path : {"", "deploy"},
     envFile : {"", ".env"}, envVars : EnvMaps, ctxDone : BOOLEAN]

EnvInit ==
    /\ PipeIdle
    /\ CatalogIdle
    /\ ufs \in EnvDirs
    /\ call \in EnvCalls
    /\ ret = <<>>

\* one call of WriteEnvFile; an os.WriteFile that fails has created or
\* truncated the file, or has not
EnvWrite ==
    /\ call.fn = "WriteEnvFile"
    /\ call.pc = "call"
    /\ LET w == envFileWriter_WriteEnvFile(ufs, call)
       IN  \/ /\ ret' = [err |-> w.err]
              /\ ufs' = w.fs
           \/ /\ w.fs # ufs
              /\ ret' = [err |-> "failed to write .env file"]
              /\ ufs' \in {ufs, WriteFile(ufs, <<>>)}
    /\ call' = [call EXCEPT !.pc = "done"]
    /\ UNCHANGED <<pvars, cvars>>

\* the next call
EnvAgain ==
    /\ call.fn = "WriteEnvFile"
    /\ call.pc = "done"
    /\ call' \in EnvCalls
    /\ UNCHANGED <<pvars, cvars, ufs, ret>>

EnvNext == EnvWrite \/ EnvAgain

SpecEnv == EnvInit /\ [][EnvNext]_vars

EnvReturns == call.fn = "WriteEnvFile" /\ call.pc = "call" /\ call'.pc = "done"

(***************************************************************************)
(* C26: WriteEnvFile returns an error and writes nothing when dir or       *)
(* fileName is empty; with envVars that are not empty it returns an error  *)
(* and writes nothing when dir does not exist or is not a directory; with  *)
(* empty envVars, dir and fileName not empty, it returns success and       *)
(* leaves the file at dir/fileName, if any, as it was.                     *)
(***************************************************************************)
C26_RejectsAndWritesNothing ==
    [][EnvReturns =>
        /\ (call.path = "" \/ call.envFile = "")
              => (ret'.err # "" /\ ufs' = ufs)
        /\ (call.path # "" /\ call.envFile # "" /\ DOMAIN call.envVars # {}
                /\ ufs.kind # "dir")
              => (ret'.err # "" /\ ufs' = ufs)
        /\ (call.path # "" /\ call.envFile # "" /\ DOMAIN call.envVars = {})
              => (ret'.err = "" /\ ufs' = ufs)]_vars

C26_Witness ==
    /\ call.fn = "WriteEnvFile"
    /\ call.pc = "done"
    /\ call.path # ""
    /\ call.envFile # ""
    /\ DOMAIN call.envVars = {}
    /\ ret.err = ""
    /\ ufs.exists
    /\ ufs.content # <<>>

(***************************************************************************)
(* C27: a WriteEnvFile with envVars that are not empty which returns       *)
(* success leaves in dir/fileName exactly one line key=value per key of    *)
(* envVars, the keys ascending in lexicographic order, whatever the file   *)
(* held before: the content depends on envVars alone, so that writing the  *)
(* same envVars again, or after any other write, gives the same content.   *)
(***************************************************************************)
C27_SortedLinesOnly ==
    [][(EnvReturns /\ DOMAIN call.envVars # {} /\ ret'.err = "") =>
        /\ ufs'.exists
        /\ Len(ufs'.content) = Cardinality(DOMAIN call.envVars)
        /\ \A k \in DOMAIN call.envVars :
              \E i \in 1..Len(ufs'.content) :
                  ufs'.content[i] = <<k, "=", FormatV(call.envVars[k])>>
        /\ \A i, j \in 1..Len(ufs'.content) :
              i < j => StringLess(ufs'.content[i][1], ufs'.content[j][1])]_vars

C27_Witness ==
    /\ call.fn = "WriteEnvFile"
    /\ call.pc = "done"
    /\ ret.err = ""
    /\ Cardinality(DOMAIN call.envVars) = 3
    /\ Len(ufs.content) = 3
    /\ ufs.content[2][1] = <<65, 66>>


(***************************************************************************)
(* C28: CreateArtifactTag(n, v) is <artifactPrefix>/<n>:<v> and            *)
(* FullyQualifiedImageTag(n, v) is <n>:<v>, and in a pass of an npm        *)
(* service the image reference PushImage pushes is one of the tags the     *)
(* image was built with, for the same name and version, in that pass.      *)
(***************************************************************************)
C28_PushedTagWasBuilt ==
    LET v == nextVersion
        ver == <<ToString(v[1]), ".", ToString(v[2]), ".", ToString(v[3])>>
        localTag == <<ServiceName, ":">> \o ver
        remoteTag == <<artifactPrefix, "/", ServiceName, ":">> \o ver
    IN  /\ "build" \in effects =>
              /\ FullyQualifiedImageTag(ServiceName, v) = localTag
              /\ CreateArtifactTag(ServiceName, v) = remoteTag
              /\ {localTag, remoteTag} \subseteq images
        /\ "pushImage" \in effects =>
              /\ "build" \in effects
              /\ remoteTag \in registry
              /\ remoteTag \in images
        /\ registry \subseteq images

C28_Witness ==
    /\ svcKind = "npm"
    /\ "pushImage" \in effects
    /\ nextVersion = Ver(1, 0, 1)
    /\ <<artifactPrefix, "/", ServiceName, ":", "1", ".", "0", ".", "1">> \in registry


(***************************************************************************)
(* dockerReleaser.BuildImageWithSecrets: the temporary directory of the    *)
(* secrets.  ufs is the directory of the call (whether it exists, the      *)
(* secret files in it) and the secret files written anywhere else.         *)
(***************************************************************************)
SecretIds == {"npmrc", "token", "key"}

NoTemp == [dir |-> FALSE, files |-> {}, stray |-> {}]

SecretsInit ==
    /\ PipeIdle
    /\ CatalogIdle
    /\ ufs = NoTemp
    /\ \E s \in SUBSET SecretIds, c \in BOOLEAN :
          call = [fn |-> "BuildImageWithSecrets", pc |-> "mkdirTemp", secrets |-> s,
                  ctxDone |-> c, err |-> "", made |-> FALSE, deferred |-> FALSE,
                  removed |-> FALSE]
    /\ ret = <<>>

\* tempDir, err := os.MkdirTemp("", "docker-secrets-*"); defer os.RemoveAll(tempDir)
SecretsMkdirTemp ==
    /\ call.fn = "BuildImageWithSecrets"
    /\ call.pc = "mkdirTemp"
    /\ \/ /\ call' = [call EXCEPT !.pc = "done",
                                  !.err = "failed to create temp directory"]
          /\ ret' = [err |-> "failed to create temp directory"]
          /\ UNCHANGED ufs
       \/ /\ ufs' = [ufs EXCEPT !.dir = TRUE]
          /\ call' = [call EXCEPT !.pc = "write", !.made = TRUE]
          /\ UNCHANGED ret
    /\ UNCHANGED <<pvars, cvars>>

\* where a secret is written: filepath.Join(tempDir, id)
SecretPath(d, id) == [d EXCEPT !.files = @ \cup {id}]

\* for id, content := range secrets { os.WriteFile(secretPath, content, 0600) }:
\* the secrets are taken in any order; a write that fails may have created
\* the file
SecretsWrite ==
    /\ call.fn = "BuildImageWithSecrets"
    /\ call.pc = "write"
    /\ \/ /\ call.secrets \subseteq ufs.files
          /\ call' = [call EXCEPT !.pc = "run"]
          /\ UNCHANGED ufs
       \/ \E id \in call.secrets \ ufs.files :
             \/ /\ ufs' = SecretPath(ufs, id)
                /\ UNCHANGED call
             \/ /\ ufs' \in {ufs, SecretPath(ufs, id)}
                /\ call' = [call EXCEPT !.pc = "cleanup",
                                        !.err = "failed to write secret"]
    /\ UNCHANGED <<pvars, cvars, ret>>

\* cmd.Run() of exec.CommandContext(ctx, docker build ...): it fails when
\* the build fails or the context is cancelled
SecretsRun ==
    /\ call.fn = "BuildImageWithSecrets"
    /\ call.pc = "run"
    /\ \/ /\ ~call.ctxDone
          /\ call' = [call EXCEPT !.pc = "cleanup"]
       \/ call' = [call EXCEPT !.pc = "cleanup",
                               !.err = "docker build command failed"]
    /\ UNCHANGED <<pvars, cvars, ufs, ret>>

\* mutant: the files are removed, the directory is left
RemoveAllTemp_KeepDir(d) == [d EXCEPT !.files = {}]

\* os.RemoveAll(tempDir) when it succeeds
RemoveAllTemp(d) == [d EXCEPT !.dir = FALSE, !.files = {}]

\* the deferred os.RemoveAll(tempDir), whose error is dropped, and the return
SecretsCleanup ==
    /\ call.fn = "BuildImageWithSecrets"
    /\ call.pc = "cleanup"
    /\ \/ /\ ufs' = RemoveAllTemp(ufs)
          /\ call' = [call EXCEPT !.pc = "done", !.deferred = TRUE, !.removed = TRUE]
       \/ /\ \E left \in SUBSET ufs.files : ufs' = [ufs EXCEPT !.files = left]
          /\ call' = [call EXCEPT !.pc = "done", !.deferred = TRUE]
    /\ ret' = [err |-> call.err]
    /\ UNCHANGED <<pvars, cvars>>

SecretsNext == SecretsMkdirTemp \/ SecretsWrite \/ SecretsRun \/ SecretsCleanup

SpecSecrets == SecretsInit /\ [][SecretsNext]_vars

SecretsReturned == call.fn = "BuildImageWithSecrets" /\ call.pc = "done"

ClientTargets == {"typescript", "go"}

NoBuild == [dir |-> FALSE, image |-> FALSE]

\* mutant: only the build directory is cleaned up
Deferred_DirOnly(target) == <<"RemoveAll">>

\* the deferred cleanup in the order it runs: one deferred function that
\* removes the directory and then the image for typescript; two deferred
\* functions, run last registered first, for go
Deferred(target) ==
    IF target = "typescript" THEN <<"RemoveAll", "RemoveImage">>
    ELSE <<"RemoveImage", "RemoveAll">>

\* the steps between the creation of the build directory and the return
ClientSteps == <<"generate", "copy", "build">>

ClientStepError(target, step) ==
    CASE step = "generate" ->
            IF target = "typescript" THEN "failed to generate config files"
            ELSE "failed to generate Go client config files"
      [] step = "copy" -> "failed to copy OpenAPI spec"
      [] step = "build" ->
            IF target = "typescript" THEN "failed to build and publish client"
            ELSE "failed to build Go client"

ClientInit ==
    /\ PipeIdle
    /\ CatalogIdle
    /\ ufs = NoBuild
    /\ \E t \in ClientTargets :
          call = [fn |-> "buildAndDeployClient", target |-> t, pc |-> "mkdir",
                  step |-> 0, err |-> "", made |-> FALSE, todo |-> <<>>,
                  tried |-> {}, failed |-> {}]
    /\ ret = <<>>

\* buildDir, err := op.createOpenAPIClientBuildDir(...); the defers
ClientMkdir ==
    /\ call.fn = "buildAndDeployClient"
    /\ call.pc = "mkdir"
    /\ \/ /\ call' = [call EXCEPT !.pc = "done",
                                  !.err = "failed to create build directory"]
          /\ ret' = [err |-> "failed to create build directory"]
          /\ UNCHANGED ufs
       \/ /\ ufs' = [ufs EXCEPT !.dir = TRUE]
          /\ call' = [call EXCEPT !.pc = "step", !.step = 1, !.made = TRUE]
          /\ UNCHANGED ret
    /\ UNCHANGED <<pvars, cvars>>

\* generate the configuration files, copy the OpenAPI document, build and
\* publish with the builder image: the first step that fails ends the body;
\* a build has made the builder image, or has not
ClientStep ==
    /\ call.fn = "buildAndDeployClient"
    /\ call.pc = "step"
    /\ LET step == ClientSteps[call.step]
       IN  /\ \/ call' = [call EXCEPT !.pc = "defer",
                                      !.err = ClientStepError(call.target, step),
                                      !.todo = Deferred(call.target)]
              \/ call' = IF call.step = Len(ClientSteps)
                         THEN [call EXCEPT !.pc = "defer",
                                           !.todo = Deferred(call.target)]
                         ELSE [call EXCEPT !.step = @ + 1]
           /\ IF step = "build"
              THEN ufs' \in {ufs, [ufs EXCEPT !.image = TRUE]}
              ELSE UNCHANGED ufs
    /\ UNCHANGED <<pvars, cvars, ret>>

\* a deferred cleanup: os.RemoveAll(buildDir) or RemoveImage(ctx, image); an
\* error of it is logged
ClientCleanup ==
    /\ call.fn = "buildAndDeployClient"
    /\ call.pc = "defer"
    /\ call.todo # <<>>
    /\ LET c == Head(call.todo)
       IN  \/ /\ ufs' = IF c = "RemoveAll" THEN [ufs EXCEPT !.dir = FALSE]
                        ELSE [ufs EXCEPT !.image = FALSE]
              /\ call' = [call EXCEPT !.todo = Tail(@), !.tried = @ \cup {c}]
           \/ /\ UNCHANGED ufs
              /\ call' = [call EXCEPT !.todo = Tail(@), !.tried = @ \cup {c},
                                      !.failed = @ \cup {c}]
    /\ UNCHANGED <<pvars, cvars, ret>>

\* the function returns what its body returned
ClientReturn ==
    /\ call.fn = "buildAndDeployClient"
    /\ call.pc = "defer"
    /\ call.todo = <<>>
    /\ ret' = [err |-> call.err]
    /\ call' = [call EXCEPT !.pc = "done"]
    /\ UNCHANGED <<pvars, cvars, ufs>>

\* the client build of the next pass
ClientAgain ==
    /\ call.fn = "buildAndDeployClient"
    /\ call.pc = "done"
    /\ \E t \in ClientTargets :
          call' = [fn |-> "buildAndDeployClient", target |-> t, pc |-> "mkdir",
                   step |-> 0, err |-> "", made |-> FALSE, todo |-> <<>>,
                   tried |-> {}, failed |-> {}]
    /\ ufs' = NoBuild
    /\ UNCHANGED <<pvars, cvars, ret>>

ClientNext ==
    ClientMkdir \/ ClientStep \/ ClientCleanup \/ ClientReturn \/ ClientAgain

SpecClient == ClientInit /\ [][ClientNext]_vars

(***************************************************************************)
(* C30: for each client target, once its temporary build directory has     *)
(* been created, the removal of that directory and the removal of the      *)
(* local builder image are both carried out before the function returns,   *)
(* whether the generation of the scaffolding, the copy of the document or  *)
(* the build succeeded or failed; a cleanup that fails does not change     *)
(* what is returned to the pipeline.                                       *)
(***************************************************************************)
C30_CleanupOnEveryExit ==
    (call.fn = "buildAndDeployClient" /\ call.pc = "done") =>
        /\ call.made =>
              /\ call.tried = {"RemoveAll", "RemoveImage"}
              /\ "RemoveAll" \notin call.failed => ~ufs.dir
              /\ "RemoveImage" \notin call.failed => ~ufs.image
              /\ ret.err = call.err
              /\ ret.err \in {""} \cup {ClientStepError(call.target, ClientSteps[i]) :
                                         i \in 1..call.step}
              /\ (ret.err = "") <=> (call.step = Len(ClientSteps)
                    /\ call.err # ClientStepError(call.target, "build"))
        /\ ~call.made => (ret.err = "failed to create build directory" /\ ~ufs.dir)

C30_Witness ==
    /\ call.fn = "buildAndDeployClient"
    /\ call.pc = "done"
    /\ call.target = "go"
    /\ call.made
    /\ ret.err = "failed to copy OpenAPI spec"
    /\ call.failed = {"RemoveImage"}
    /\ ~ufs.dir


(***************************************************************************)
(* SetOpenApiYamlVersion and updateVersion.  A YAML document is its node   *)
(* tree: a node has a Kind, a Value (a text, written as the sequence of    *)
(* its parts, as VersionString writes a version) and its Content, which    *)
(* for a mapping is key, value, key, value, ...  ufs is the working tree:  *)
(* whether it exists and the node tree of the document file in it, in a    *)
(* one-element sequence, or <<>> when the file cannot be read or parsed.   *)
(***************************************************************************)
ScalarNode(v) == [Kind |-> "ScalarNode", Value |-> v, Content |-> <<>>]

MappingNode(c) == [Kind |-> "MappingNode", Value |-> <<>>, Content |-> c]

DocumentNode(c) == [Kind |-> "DocumentNode", Value |-> <<>>, Content |-> c]

\* the sequences over S of length at most n
SeqUpTo(S, n) == UNION {[1..k -> S] : k \in 0..n}

\* s[1] \o s[2] \o ... for a sequence of at most two sequences
Flatten(s) ==
    IF Len(s) = 0 THEN <<>>
    ELSE IF Len(s) = 1 THEN s[1]
    ELSE s[1] \o s[2]

\* the key/value pairs s have distinct keys, as a YAML mapping's have
DistinctKeys(s) == \A a, b \in 1..Len(s) : s[a][1] = s[b][1] => a = b

\* the key/value pairs a document's info mapping is made of
InfoPairs ==
    { <<ScalarNode(<<"title">>), ScalarNode(<<"api">>)>>,
      <<ScalarNode(<<"version">>), ScalarNode(<<"0", ".", "9", ".", "0">>)>>,
      <<ScalarNode(<<"version">>), MappingNode(<<>>)>> }

InfoNodes ==
    {MappingNode(Flatten(s)) : s \in {t \in SeqUpTo(InfoPairs, 2) : DistinctKeys(t)}}
        \cup {ScalarNode(<<"none">>)}

\* the key/value pairs at the top of a document
RootPairs ==
    { <<ScalarNode(<<"openapi">>), ScalarNode(<<"3", ".", "0", ".", "3">>)>>,
      <<ScalarNode(<<"paths">>), MappingNode(<<>>)>> }
        \cup { <<ScalarNode(<<"info">>), n>> : n \in InfoNodes }

\* the documents: a mapping of at most two keys, a scalar, an empty document
Documents ==
    {DocumentNode(<<MappingNode(Flatten(s))>>) :
        s \in {t \in SeqUpTo(RootPairs, 2) : DistinctKeys(t)}}
        \cup {DocumentNode(<<ScalarNode(<<"text">>)>>), DocumentNode(<<>>)}

\* the even positions 0, 2, ... below n, as positions of a 1-based sequence
KeyPositions(n) == {i \in 1..n : i % 2 = 1 /\ i + 1 <= n}

\* the first key position of content whose key's Value is name, or 0
FindKey(content, name) ==
    LET hits == {i \in KeyPositions(Len(content)) : content[i].Value = <<name>>}
    IN  IF hits = {} THEN 0
        ELSE CHOOSE i \in hits : \A j \in hits : i <= j

\* mutant: the Value is set on the key node
updateVersion_SetsKey(node, version) ==
    IF node.Kind # "DocumentNode" \/ Len(node.Content) = 0
    THEN [err |-> "invalid yaml structure", node |-> node]
    ELSE LET root == node.Content[1]
             i == FindKey(root.Content, "info")
         IN  IF root.Kind # "MappingNode"
             THEN [err |-> "root is not a mapping", node |-> node]
             ELSE IF i = 0
             THEN [err |-> "info key not found", node |-> node]
             ELSE LET infoNode == root.Content[i + 1]
                      j == FindKey(infoNode.Content, "version")
                  IN  IF infoNode.Kind # "MappingNode"
                      THEN [err |-> "info is not a mapping", node |-> node]
                      ELSE IF j = 0
                      THEN [err |-> "version key not found in info", node |-> node]
                      ELSE [err |-> "",
                            node |-> [node EXCEPT
                               !.Content[1].Content[i + 1].Content[j].Value =
                                   VersionString(version)]]

updateVersion(node, version) ==
    IF node.Kind # "DocumentNode" \/ Len(node.Content) = 0
    THEN [err |-> "invalid yaml structure", node |-> node]
    ELSE LET root == node.Content[1]
             i == FindKey(root.Content, "info")
         IN  IF root.Kind # "MappingNode"
             THEN [err |-> "root is not a mapping", node |-> node]
             ELSE IF i = 0
             THEN [err |-> "info key not found", node |-> node]
             ELSE LET infoNode == root.Content[i + 1]
                      j == FindKey(infoNode.Content, "version")
                  IN  IF infoNode.Kind # "MappingNode"
                      THEN [err |-> "info is not a mapping", node |-> node]
                      ELSE IF j = 0
                      THEN [err |-> "version key not found in info", node |-> node]
                      ELSE [err |-> "",
                            node |-> [node EXCEPT
                               !.Content[1].Content[i + 1].Content[j + 1].Value =
                                   VersionString(version)]]

\* yaml.Marshal followed by a later yaml.Unmarshal: the Value of a node that
\* is not a scalar is not written
RECURSIVE Emitted(_)
Emitted(node) ==
    [Kind |-> node.Kind,
     Value |-> IF node.Kind = "ScalarNode" THEN node.Value ELSE <<>>,
     Content |-> [k \in 1..Len(node.Content) |-> Emitted(node.Content[k])]]

YamlVersions == {Ver(1, 0, 0), Ver(0, 9, 1)}

YamlInit ==
    /\ PipeIdle
    /\ CatalogIdle
    /\ \E f \in {<<>>} \cup {<<d>> : d \in Documents}, e \in BOOLEAN :
          /\ ufs = [repo |-> e, file |-> f]
          /\ e \/ f = <<>>
    /\ \E v \in YamlVersions :
          call = [fn |-> "SetOpenApiYamlVersion", version |-> v, pc |-> "call"]
    /\ ret = <<>>

\* SetOpenApiYamlVersion: os.Stat of the working tree, os.ReadFile and
\* yaml.Unmarshal of the document, updateVersion, yaml.Marshal, os.WriteFile
\* (which, when it fails, has written nothing or has emptied the file)
YamlSet ==
    /\ call.fn = "SetOpenApiYamlVersion"
    /\ call.pc = "call"
    /\ IF ~ufs.repo
       THEN ret' = [err |-> "stat"] /\ UNCHANGED ufs
       ELSE IF ufs.file = <<>>
       THEN ret' = [err |-> "read or parse"] /\ UNCHANGED ufs
       ELSE LET u == updateVersion(ufs.file[1], call.version)
            IN  IF u.err # ""
                THEN ret' = [err |-> u.err] /\ UNCHANGED ufs
                ELSE \/ /\ ufs' = [ufs EXCEPT !.file = <<Emitted(u.node)>>]
                        /\ ret' = [err |-> ""]
                     \/ /\ ufs' \in {ufs, [ufs EXCEPT !.file = <<>>]}
                        /\ ret' = [err |-> "write"]
    /\ call' = [call EXCEPT !.pc = "done"]
    /\ UNCHANGED <<pvars, cvars>>

\* the version file of the next pass
YamlAgain ==
    /\ call.fn = "SetOpenApiYamlVersion"
    /\ call.pc = "done"
    /\ ufs.file # <<>>
    /\ \E v \in YamlVersions :
          call' = [fn |-> "SetOpenApiYamlVersion", version |-> v, pc |-> "call"]
    /\ UNCHANGED <<pvars, cvars, ufs, ret>>

YamlNext == YamlSet \/ YamlAgain

SpecYaml == YamlInit /\ [][YamlNext]_vars

\* the key positions of a mapping's content that carry the key name
KeysNamed(content, name) ==
    {i \in 1..Len(content) : i % 2 = 1 /\ content[i] = ScalarNode(<<name>>)}

(***************************************************************************)
(* C31: SetOpenApiYamlVersion sets the scalar at info.version to the new   *)
(* version and leaves every other node, the order of the keys under info   *)
(* and the rest of the document as parsed; when the document has no        *)
(* top-level info mapping, or info has no version key, it returns an error *)
(* and the document file is left as it was.                                *)
(***************************************************************************)
C31_OnlyInfoVersionChanges ==
    [][(YamlSet /\ ufs.repo /\ ufs.file # <<>>) =>
          LET pre == ufs.file[1]
              isMap == Len(pre.Content) > 0 /\ pre.Content[1].Kind = "MappingNode"
              is == IF isMap THEN KeysNamed(pre.Content[1].Content, "info") ELSE {}
              infoMaps == {i \in is : pre.Content[1].Content[i + 1].Kind = "MappingNode"}
              js(i) == KeysNamed(pre.Content[1].Content[i + 1].Content, "version")
          IN  IF infoMaps = {} \/ \A i \in infoMaps : js(i) = {}
              THEN ret'.err # "" /\ ufs' = ufs
              ELSE ret'.err = "" =>
                     \E i \in infoMaps : \E j \in js(i) :
                        LET old == pre.Content[1].Content[i + 1].Content[j + 1]
                        IN  ufs'.file[1] =
                              IF old.Kind = "ScalarNode"
                              THEN [pre EXCEPT
                                      !.Content[1].Content[i + 1].Content[j + 1] =
                                          ScalarNode(VersionString(call.version))]
                              ELSE pre]_vars

\* a version was set in a document whose info mapping has a key before the
\* version and which has a key after info
C31_Witness ==
    /\ call.fn = "SetOpenApiYamlVersion"
    /\ call.pc = "done"
    /\ ret = [err |-> ""]
    /\ ufs.file = <<DocumentNode(<<MappingNode(<<
           ScalarNode(<<"info">>),
           MappingNode(<<ScalarNode(<<"title">>), ScalarNode(<<"api">>),
                         ScalarNode(<<"version">>), ScalarNode(VersionString(Ver(0, 9, 1)))>>),
           ScalarNode(<<"paths">>), MappingNode(<<>>)>>)>>)>>

\* a document without a version key under info was refused
C31_WitnessRefused ==
    /\ call.fn = "SetOpenApiYamlVersion"
    /\ call.pc = "done"
    /\ ret = [err |-> "version key not found in info"]
    /\ ufs.file # <<>>


(***************************************************************************)
(* The compose runner (Up, Down, runComposeCommand).  ufs is what is at    *)
(* composeDir; ret records the subprocess that was started, if any, and    *)
(* what the call returned, or that the call panicked.                      *)
(***************************************************************************)
dockerComposeVersionKey == "VERSION"

ComposeCLIs == {"V1", "V2"}

ComposeDirKinds == {"missing", "file", "dir"}

ComposeOutputs == {<<>>, <<"out">>}

NoProcess == <<>>

\* fmt.Sprintf("%s=%s", dockerComposeVersionKey, version.String()): String
\* has a value receiver, so a nil version is a nil pointer dereference
constructVersionEnvVar(version) ==
    IF version = <<>> THEN [panic |-> TRUE, var |-> <<>>]
    ELSE [panic |-> FALSE,
          var |-> <<dockerComposeVersionKey, "=">> \o VersionString(version[1])]

\* os.Stat(composeDir) and info.IsDir()
ComposeDirValid(kind) ==
    IF kind = "missing" THEN "composeDir invalid"
    ELSE IF kind # "dir" THEN "composeDir is not a directory"
    ELSE ""

\* runComposeCommand; version is <<>> for nil; c.lookPath is whether docker
\* is in PATH, c.exit the exit code of the subprocess and c.output what it
\* prints
runComposeCommand(c, version, kind, args) ==
    LET env == constructVersionEnvVar(version)
        cmd == IF c.cli = "V1" THEN <<"docker-compose">> \o args
               ELSE <<"docker", "compose">> \o args
    IN  IF ComposeDirValid(kind) # ""
        THEN [panic |-> FALSE, process |-> NoProcess, output |-> <<>>,
              err |-> ComposeDirValid(kind)]
        ELSE IF c.cli = "V2" /\ ~c.lookPath
        THEN [panic |-> FALSE, process |-> NoProcess, output |-> <<>>,
              err |-> "docker not found in PATH"]
        ELSE IF env.panic
        THEN [panic |-> TRUE, process |-> NoProcess, output |-> <<>>, err |-> ""]
        ELSE [panic |-> FALSE,
              process |-> <<[args |-> cmd, env |-> env.var]>>,
              output |-> c.output,
              err |-> IF c.exit = 0 THEN "" ELSE "command failed"]

Up(c, kind, version) == runComposeCommand(c, <<version>>, kind, <<"up", "-d">>)

Down(c, kind) == runComposeCommand(c, <<>>, kind, <<"down">>)

ComposeCalls ==
    [fn : {"Up", "Down"}, cli : ComposeCLIs, lookPath : BOOLEAN,
     exit : {0, 1}, output : ComposeOutputs, version : YamlVersions,
     pc : {"call"}]

ComposeInit ==
    /\ PipeIdle
    /\ CatalogIdle
    /\ ufs \in [kind : ComposeDirKinds]
    /\ call \in ComposeCalls
    /\ ret = <<>>

ComposeRun ==
    /\ call.fn \in {"Up", "Down"}
    /\ call.pc = "call"
    /\ ret' = IF call.fn = "Up" THEN Up(call, ufs.kind, call.version)
              ELSE Down(call, ufs.kind)
    /\ call' = [call EXCEPT !.pc = "done"]
    /\ UNCHANGED <<pvars, cvars, ufs>>

ComposeNext == ComposeRun

SpecCompose == ComposeInit /\ [][ComposeNext]_vars

ComposeReturned == call.fn \in {"Up", "Down"} /\ call.pc = "done"

(***************************************************************************)
(* C32: Up and Down fail without starting a subprocess when composeDir     *)
(* does not exist or is not a directory; on a directory Down runs the      *)
(* compose CLI with 'down' and no VERSION variable and returns the         *)
(* captured output (with an error on a non-zero exit), as Up does for      *)
(* 'up -d' with VERSION=<version>.                                         *)
(***************************************************************************)
C32_UpAndDownRunCompose ==
    ComposeReturned =>
        IF ufs.kind # "dir"
        THEN ~ret.panic /\ ret.err # "" /\ ret.process = NoProcess
        ELSE (call.cli = "V1" \/ call.lookPath) =>
               /\ ~ret.panic
               /\ ret.process # NoProcess
               /\ ret.output = call.output
               /\ (ret.err = "") <=> (call.exit = 0)
               /\ IF call.fn = "Up"
                  THEN /\ SubSeq(ret.process[1].args, Len(ret.process[1].args) - 1,
                                 Len(ret.process[1].args)) = <<"up", "-d">>
                       /\ ret.process[1].env =
                             <<"VERSION", "=">> \o VersionString(call.version)
                  ELSE /\ ret.process[1].args[Len(ret.process[1].args)] = "down"
                       /\ ret.process[1].env = <<>>

\* the part of C32 about Up and about the validation of composeDir
C32_UpAndValidation ==
    ComposeReturned =>
        IF ufs.kind # "dir"
        THEN ~ret.panic /\ ret.err # "" /\ ret.process = NoProcess
        ELSE (call.fn = "Up" /\ (call.cli = "V1" \/ call.lookPath)) =>
               /\ ~ret.panic
               /\ ret.process # NoProcess
               /\ ret.output = call.output
               /\ (ret.err = "") <=> (call.exit = 0)
               /\ ret.process[1].env = <<"VERSION", "=">> \o VersionString(call.version)


\* the tail of s of length n (all of s when it is shorter)
LastN(s, n) == SubSeq(s, IF Len(s) > n THEN Len(s) - n + 1 ELSE 1, Len(s))

\* the steps of an NpmService pass after the commit and the tag, in the
\* order of BuildAndDeployNpmService, by what each records in effects
NpmDeploySteps == <<"pushTag", "build", "pushImage", "env", "compose">>

(***************************************************************************)
(* C33: in an NpmService pass the steps occur in the order tag push, image *)
(* build, image push, env-file write, compose up, and compose up is        *)
(* invoked only if in the same pass the image of the same version was      *)
(* built and pushed and the env-file write returned success.               *)
(***************************************************************************)
C33_ComposeUpAfterBuildPushEnv ==
    svcKind = "npm" =>
        /\ \A k \in 2..Len(NpmDeploySteps) :
              NpmDeploySteps[k] \in effects => NpmDeploySteps[k - 1] \in effects
        /\ tpc = "compose" =>
              /\ LastN(stepsRun, 4) = <<"pushTags", "build", "pushImage", "env">>
              /\ {"pushTag", "build", "pushImage", "env"} \subseteq effects
              /\ CreateArtifactTag(ServiceName, nextVersion) \in images
              /\ CreateArtifactTag(ServiceName, nextVersion) \in registry
        /\ "compose" \in effects =>
              /\ composeVer = nextVersion
              /\ CreateArtifactTag(ServiceName, composeVer) \in registry

\* compose up is being invoked in a pass that built, pushed and wrote
C33_Witness ==
    /\ svcKind = "npm"
    /\ tpc = "compose"
    /\ nextVersion # NoVer
    /\ "env" \in effects


(***************************************************************************)
(* BuildAndDeployOpenAPIClient.  The OpenAPI configuration is <<>> when it *)
(* is nil and otherwise holds which client targets are configured; an      *)
(* outcome is what the build of each target returns when it is invoked.    *)
(* ret records the targets invoked, in order, with the version handed on.  *)
(***************************************************************************)
OpenAPIConfigs ==
    {<<>>} \cup {<<c>> : c \in [TypescriptClient : BOOLEAN, GoClient : BOOLEAN]}

ClientOutcomes == [typescript : {"", "failed"}, go : {"", "failed"}]

\* mutant: the go client is built whatever the typescript build returned
BuildAndDeployOpenAPIClient_ContinueOnError(cfg, v, outcome) ==
    IF cfg = <<>>
    THEN [err |-> "openAPI configuration is nil", invoked |-> <<>>]
    ELSE LET ts == IF cfg[1].TypescriptClient THEN <<<<"typescript", v>>>> ELSE <<>>
             tsErr == IF cfg[1].TypescriptClient THEN outcome.typescript ELSE ""
             go == IF cfg[1].GoClient THEN <<<<"go", v>>>> ELSE <<>>
             goErr == IF cfg[1].GoClient THEN outcome.go ELSE ""
         IN  [err |-> IF tsErr # "" THEN "failed to build TypeScript client"
                      ELSE IF goErr # "" THEN "failed to build Go client" ELSE "",
              invoked |-> ts \o go]

BuildAndDeployOpenAPIClient(cfg, v, outcome) ==
    IF cfg = <<>>
    THEN [err |-> "openAPI configuration is nil", invoked |-> <<>>]
    ELSE LET ts == IF cfg[1].TypescriptClient THEN <<<<"typescript", v>>>> ELSE <<>>
             tsErr == IF cfg[1].TypescriptClient THEN outcome.typescript ELSE ""
         IN  IF tsErr # ""
             THEN [err |-> "failed to build TypeScript client", invoked |-> ts]
             ELSE IF ~cfg[1].GoClient
             THEN [err |-> "", invoked |-> ts]
             ELSE [err |-> IF outcome.go # "" THEN "failed to build Go client" ELSE "",
                   invoked |-> Append(ts, <<"go", v>>)]

DeployInit ==
    /\ PipeIdle
    /\ CatalogIdle
    /\ ufs = <<>>
    /\ \E c \in OpenAPIConfigs, v \in ReleaseVersions, o \in ClientOutcomes :
          call = [fn |-> "BuildAndDeployOpenAPIClient", cfg |-> c, version |-> v,
                  outcome |-> o, pc |-> "call"]
    /\ ret = <<>>

DeployRun ==
    /\ call.fn = "BuildAndDeployOpenAPIClient"
    /\ call.pc = "call"
    /\ ret' = BuildAndDeployOpenAPIClient(call.cfg, call.version, call.outcome)
    /\ call' = [call EXCEPT !.pc = "done"]
    /\ UNCHANGED <<pvars, cvars, ufs>>

DeployNext == DeployRun

SpecDeploy == DeployInit /\ [][DeployNext]_vars

DeployReturned == call.fn = "BuildAndDeployOpenAPIClient" /\ call.pc = "done"

(***************************************************************************)
(* C34: in an OpenAPI pass that reaches build-and-publish the client build *)
(* is invoked once for each configured target, typescript before go, and   *)
(* never for a target that is not configured; a failure of one target ends *)
(* the step with an error without the remaining target being invoked; with *)
(* no target configured the step succeeds and builds nothing.              *)
(***************************************************************************)
C34_ConfiguredTargetsInOrder ==
    (DeployReturned /\ call.cfg # <<>>) =>
        LET cfg == call.cfg[1]
            ts == <<"typescript", call.version>>
            go == <<"go", call.version>>
            tsFails == cfg.TypescriptClient /\ call.outcome.typescript # ""
            goFails == cfg.GoClient /\ call.outcome.go # ""
        IN  /\ ret.invoked \in {<<>>, <<ts>>, <<go>>, <<ts, go>>}
            /\ (\E k \in 1..Len(ret.invoked) : ret.invoked[k] = ts)
                  <=> cfg.TypescriptClient
            /\ (\E k \in 1..Len(ret.invoked) : ret.invoked[k] = go)
                  <=> (cfg.GoClient /\ ~tsFails)
            /\ (ret.err = "") <=> (~tsFails /\ ~(goFails /\ ~tsFails))
            /\ (~cfg.TypescriptClient /\ ~cfg.GoClient) =>
                  (ret.err = "" /\ ret.invoked = <<>>)

\* both targets are configured and the typescript build failed
C34_Witness ==
    /\ DeployReturned
    /\ call.cfg = <<[TypescriptClient |-> TRUE, GoClient |-> TRUE]>>
    /\ call.outcome.typescript # ""
    /\ ret.err = "failed to build TypeScript client"
    /\ Len(ret.invoked) = 1


(***************************************************************************)
(* The git remote names.  ufs is the working tree of a service: the names  *)
(* of the remotes its configuration holds.  call is the configured remote  *)
(* name (GIT_REPO_ORIGIN) and where the service is between create and the  *)
(* steps of its passes; call.used records, per git operation, the remote   *)
(* name it was given and how it ended.                                     *)
(***************************************************************************)
defaultOrigin == "origin"

GitRepoOrigins == {"origin", "upstream", "mirror"}

\* how a pull or push that names remote can end in a working tree with the
\* remotes have: go-git fails with "remote not found" for an unknown name
RemoteResults(have, remote) ==
    IF remote \in have THEN {"ok", "failed"} ELSE {"remote not found"}

\* the remote name Pull is given
PullRemoteName(gitRepoOrigin) == defaultOrigin

\* the remote name the pushes of the commit and of the tags are given
PushRemoteName(gitRepoOrigin) == gitRepoOrigin

\* the remote name Clone is given
CloneRemoteName(gitRepoOrigin) == gitRepoOrigin

RemoteInit ==
    /\ PipeIdle
    /\ CatalogIdle
    /\ ufs = [remotes |-> {}]
    /\ \E o \in GitRepoOrigins :
          call = [fn |-> "git", gitRepoOrigin |-> o, pc |-> "clone", used |-> {}]
    /\ ret = <<>>

GitOp(op, remote, res, next) ==
    /\ call' = [call EXCEPT !.pc = next,
                            !.used = @ \cup {[op |-> op, remote |-> remote, res |-> res]}]
    /\ ret' = [err |-> IF res = "ok" THEN "" ELSE res]

\* repo.Create: gitClient.Clone with RemoteName ds.gitRepoOrigin
RemoteClone ==
    /\ call.fn = "git"
    /\ call.pc = "clone"
    /\ LET name == CloneRemoteName(call.gitRepoOrigin)
       IN  \/ /\ ufs' = [ufs EXCEPT !.remotes = {name}]
              /\ GitOp("clone", name, "ok", "pull")
           \/ /\ UNCHANGED ufs
              /\ GitOp("clone", name, "failed", "clone")
    /\ UNCHANGED <<pvars, cvars>>

\* shouldProcess: wt.Pull; an error ends the pass, the next pass pulls again
RemotePull ==
    /\ call.fn = "git"
    /\ call.pc = "pull"
    /\ LET name == PullRemoteName(call.gitRepoOrigin)
       IN  \E res \in RemoteResults(ufs.remotes, name) :
              GitOp("pull", name, res, IF res = "ok" THEN "pushCommit" ELSE "pull")
    /\ UNCHANGED <<pvars, cvars, ufs>>

\* commitChanges: repo.Push of the branch
RemotePushCommit ==
    /\ call.fn = "git"
    /\ call.pc = "pushCommit"
    /\ LET name == PushRemoteName(call.gitRepoOrigin)
       IN  \E res \in RemoteResults(ufs.remotes, name) :
              GitOp("pushCommit", name, res, IF res = "ok" THEN "pushTags" ELSE "pull")
    /\ UNCHANGED <<pvars, cvars, ufs>>

\* tagAndPushChanges: repo.Push of the tags; the pass ends
RemotePushTags ==
    /\ call.fn = "git"
    /\ call.pc = "pushTags"
    /\ LET name == PushRemoteName(call.gitRepoOrigin)
       IN  \E res \in RemoteResults(ufs.remotes, name) :
              GitOp("pushTags", name, res, "pull")
    /\ UNCHANGED <<pvars, cvars, ufs>>

RemoteNext == RemoteClone \/ RemotePull \/ RemotePushCommit \/ RemotePushTags

SpecRemote == RemoteInit /\ [][RemoteNext]_vars

(***************************************************************************)
(* C35: for every configured git remote name the Sync step pulls from the  *)
(* configured remote, the one under which create cloned the repository and *)
(* to which the commit and the tags are pushed, and not from a fixed name. *)
(***************************************************************************)
C35_PullFromConfiguredRemote ==
    call.fn = "git" =>
        \A u \in call.used :
            /\ u.remote = call.gitRepoOrigin
            /\ u.op = "pull" => u.remote \in ufs.remotes

\* the clone and the pushes are given the configured remote name
C35_CloneAndPushUseConfiguredRemote ==
    call.fn = "git" =>
        \A u \in call.used : u.op # "pull" => u.remote = call.gitRepoOrigin


(***************************************************************************)
(* C36: within one pass a single version is used throughout: the value     *)
(* written into the versioned file, the commit message 'ci: Release        *)
(* version V', the tag name V with the message 'Release V', the image tags *)
(* built and pushed, the versions of the client packages and the VERSION   *)
(* variable of compose all carry the version calculated in that pass.      *)
(***************************************************************************)
C36_OneVersionPerPass ==
    /\ effects # {} => nextVersion # NoVer
    /\ "file" \in effects => fileVer = nextVersion
    /\ "commit" \in effects =>
          /\ HeadCommit(localLog).msg.type = "ci"
          /\ HeadCommit(localLog).msg.ver = nextVersion
    /\ "tag" \in effects =>
          \E t \in localTags :
              /\ t.name = TagName("strict", nextVersion)
              /\ t.target = HeadCommit(localLog).id
              /\ t.message = <<"Release ", nextVersion>>
    /\ "pushTag" \in effects =>
          \E t \in remoteTags :
              /\ t.name = TagName("strict", nextVersion)
              /\ t.message = <<"Release ", nextVersion>>
    /\ "build" \in effects =>
          {<<ServiceName, ":">> \o VersionString(nextVersion),
           <<artifactPrefix, "/", ServiceName, ":">> \o VersionString(nextVersion)}
              \subseteq images
    /\ "pushImage" \in effects =>
          (<<artifactPrefix, "/", ServiceName, ":">> \o VersionString(nextVersion))
              \in registry
    /\ "client" \in effects => nextVersion \in clients
    /\ "compose" \in effects => composeVer = nextVersion

\* the version of a pass stays what CalculateNextVersion returned until the
\* pass has returned
C36_VersionFixedAfterCalculate ==
    [][(tpc \notin {"wait", "shouldProcess", "calculate", "exited"})
          => nextVersion' = nextVersion]_vars

\* a pass of an npm service went through to compose up
C36_Witness ==
    /\ svcKind = "npm"
    /\ {"file", "commit", "tag", "pushTag", "build", "pushImage", "env", "compose"}
          \subseteq effects
    /\ composeVer = nextVersion
    /\ nextVersion # NoVer


\* HEAD is a release commit of commitChanges that carries no semver tag
UntaggedReleaseAtHead ==
    /\ localLog # <<>>
    /\ HeadCommit(localLog).msg.type = "ci"
    /\ HeadCommit(localLog).msg.ver # NoVer
    /\ ~FoundSemver(localLog, localTags)

(***************************************************************************)
(* C37: when a pass created the release commit 'ci: Release version V' and *)
(* failed before the tag V was created, the next pass, with no new commits *)
(* pulled, calculates the same version V: the untagged release commit is   *)
(* accepted as a conventional commit and does not raise the level of the   *)
(* bump, so the retry neither fails on it nor skips to a higher version.   *)
(***************************************************************************)
C37_RetryCalculatesSameVersion ==
    [][(Calculate /\ UntaggedReleaseAtHead) =>
          /\ tpc' = "mutate"
          /\ nextVersion' = HeadCommit(localLog).msg.ver
          /\ nextVersion' \in ReleaseVersions]_vars

\* a pass after one that committed and then failed has calculated the
\* version of the release commit again
C37_Witness ==
    /\ tpc = "mutate"
    /\ UntaggedReleaseAtHead
    /\ Len(stepsRun) = 3
    /\ "commit" \notin effects
    /\ nextVersion = HeadCommit(localLog).msg.ver
    /\ nextVersion = IncMinor(BaseVer)


(***************************************************************************)
(* C38: when create calls for one name run concurrently, a call that ends  *)
(* in failure never deletes or overwrites the descriptor or the working    *)
(* tree of a call that succeeded: if a create for the name returned        *)
(* success, <root>/<name>/service_definition.json and <root>/<name>/repo   *)
(* exist with that call's content once all calls have returned.            *)
(***************************************************************************)
C38_FailedCreateLeavesSuccessIntact ==
    (\A r \in DOMAIN req : ~InFlight(r)) =>
        \A n \in CatNames :
            Succeeded(n) =>
                /\ fs[n].dir
                /\ fs[n].repoDir
                /\ \E r \in DOMAIN req :
                      /\ req[r].name = n
                      /\ req[r].res = "ok"
                      /\ fs[n].desc = r
                      /\ fs[n].clone = r


ListDone == call.fn = "List" /\ call.pc = "done"

\* the places, among the subdirectories of the root, of those whose
\* descriptor is missing or cannot be parsed
BadSubdirs(dirEntries) ==
    {k \in 1..Len(Subdirs(dirEntries)) :
        LET e == dirEntries[Subdirs(dirEntries)[k]]
        IN  e.desc = 0 \/ e.bad}

\* list returns the records of a prefix of the subdirectories, all of them
\* readable, or an error and no record
AllOrNothing ==
    IF ret.err = ""
    THEN /\ \E k \in 0..Len(Subdirs(ufs)) : ret.services = SubSeq(Subdirs(ufs), 1, k)
         /\ \A k \in 1..Len(ret.services) : k \notin BadSubdirs(ufs)
    ELSE ret.services = <<>>

C39_StartupFailsWithoutTasks ==
    boot.partial =>
        /\ boot.pc \in {"list", "fatal"}
        /\ sentLog = <<>>
        /\ \A n \in DOMAIN tasks : tasks[n] = 0


(***************************************************************************)
(* The reconciliation period.  The value of BACKGROUND_PROCESSING_INTERVAL *)
(* is <<>> when it is unset or empty and otherwise its text in a           *)
(* one-element sequence: a sign, digits (none, "0" or "5") and a unit.     *)
(* call is main's position and the interval it hands to the tasks, ret the *)
(* number of tickers created per service.  A duration is in seconds.       *)
(***************************************************************************)
PeriodTexts == [neg : BOOLEAN, digits : {"", "0", "5"}, unit : {"", "s", "m", "x"}]

PeriodValues == {<<>>} \cup {<<t>> : t \in PeriodTexts}

\* time.ParseDuration: digits are required, a unit is required unless the
\* text is "0", the unit must be a known one; on an error the duration is 0
ParseDuration(t) ==
    LET n == IF t.digits = "5" THEN 5 ELSE 0
        secs == IF t.unit = "m" THEN 60 * n ELSE n
    IN  IF t.digits = "" THEN [d |-> 0, err |-> "invalid duration"]
        ELSE IF t.unit = ""
        THEN IF t.digits = "0" THEN [d |-> 0, err |-> ""]
             ELSE [d |-> 0, err |-> "missing unit in duration"]
        ELSE IF t.unit \notin {"s", "m"}
        THEN [d |-> 0, err |-> "unknown unit in duration"]
        ELSE [d |-> IF t.neg THEN 0 - secs ELSE secs, err |-> ""]

\* env.GetBackgroundProcessingInterval: getRequiredEnvVar ends the process
\* when the variable is empty
GetBackgroundProcessingInterval(value) ==
    IF value = <<>> THEN [fatal |-> TRUE, d |-> 0, err |-> ""]
    ELSE [fatal |-> FALSE, d |-> ParseDuration(value[1]).d,
          err |-> ParseDuration(value[1]).err]

\* mutant: main ends the process when the period cannot be parsed
mainInterval_FatalOnError(value) ==
    LET g == GetBackgroundProcessingInterval(value)
    IN  [fatal |-> g.fatal \/ g.err # "", interval |-> g.d]

\* main: interval, err := env.GetBackgroundProcessingInterval(ctx);
\* if err != nil { }
mainInterval(value) ==
    LET g == GetBackgroundProcessingInterval(value)
    IN  [fatal |-> g.fatal, interval |-> g.d]

\* time.NewTicker(d) panics unless d is positive
NewTickerPanics(d) == d <= 0

PeriodInit ==
    /\ PipeIdle
    /\ ufs = <<>>
    /\ \E v \in PeriodValues :
          call = [fn |-> "main", pc |-> "env", value |-> v, interval |-> 0,
                  panicAt |-> ""]
    /\ fs = [n \in CatNames |-> Absent]
    /\ req = [r \in {1} |-> NoReq]
    /\ chan = <<>>
    /\ sentLog = <<>>
    /\ rcvdLog = <<>>
    /\ \E n \in {0, 1} :
          boot = [pc |-> "list", n |-> n, partial |-> FALSE, listed |-> 0, idx |-> 0]
    /\ tasks = [n \in CatNames \cup {ExistingName(i) : i \in 1..MaxExisting} |-> 0]
    /\ ret = [n \in CatNames \cup {ExistingName(i) : i \in 1..MaxExisting} |-> 0]
    /\ lastGet = NoGet
    /\ lastRet = [n \in CatNames |-> ""]

\* main reads the period before it starts the supervisor
PeriodRead ==
    /\ call.fn = "main"
    /\ call.pc = "env"
    /\ LET m == mainInterval(call.value)
       IN  call' = [call EXCEPT !.pc = IF m.fatal THEN "fatal" ELSE "run",
                                !.interval = m.interval]
    /\ UNCHANGED <<pvars, cvars, ufs, ret>>

\* processBackgroundJob of a task the supervisor has started:
\* ticker := time.NewTicker(interval); its panic ends the process
TaskNewTicker(n) ==
    /\ call.fn = "main"
    /\ call.pc = "run"
    /\ ret[n] < tasks[n]
    /\ IF NewTickerPanics(call.interval)
       THEN /\ call' = [call EXCEPT !.pc = "panic", !.panicAt = n]
            /\ UNCHANGED ret
       ELSE /\ ret' = [ret EXCEPT ![n] = @ + 1]
            /\ UNCHANGED call
    /\ UNCHANGED <<pvars, cvars, ufs>>

\* the process runs: main has read its configuration and has not ended
Running == call.fn = "main" /\ call.pc = "run"

PeriodNext ==
    \/ PeriodRead
    \/ Running /\ BootList
    \/ Running /\ BootSend
    \/ Running /\ BootServe
    \/ Running /\ \E r \in DOMAIN req, n \in CatNames : StartCreate(r, n)
    \/ Running /\ \E r \in DOMAIN req : CreateGet(r)
    \/ Running /\ \E r \in DOMAIN req : RepoMkdir(r)
    \/ Running /\ \E r \in DOMAIN req : RepoWrite(r)
    \/ Running /\ \E r \in DOMAIN req : RepoMkdirRepo(r)
    \/ Running /\ \E r \in DOMAIN req : RepoSSHKey(r)
    \/ Running /\ \E r \in DOMAIN req : RepoClone(r)
    \/ Running /\ \E r \in DOMAIN req : RepoCleanup(r)
    \/ Running /\ \E r \in DOMAIN req : CreateSend(r)
    \/ Running /\ Admit
    \/ \E n \in DOMAIN tasks : TaskNewTicker(n)

SpecPeriod == PeriodInit /\ [][PeriodNext]_vars

\* the period as a text that does not parse, or parses to a duration that
\* is not positive
BadPeriod(value) ==
    /\ value # <<>>
    /\ \/ value[1].digits = ""
       \/ value[1].unit \notin {"s", "m"}
       \/ value[1].digits = "0"
       \/ value[1].neg

(***************************************************************************)
(* C40: a reconciliation period that cannot be parsed or is not positive   *)
(* is not rejected at startup: the parse error is discarded and startup    *)
(* goes on, and the process fails only when the first reconciliation task  *)
(* creates its ticker, which for a service admitted through create is      *)
(* after its record has been persisted and its token consumed.             *)
(***************************************************************************)
C40_BadPeriodFailsAtFirstTicker ==
    (call.fn = "main" /\ BadPeriod(call.value)) =>
        /\ call.pc # "fatal"
        /\ \A n \in DOMAIN ret : ret[n] = 0
        /\ (\A n \in DOMAIN tasks : tasks[n] = 0) => call.pc \in {"env", "run"}
        /\ call.pc = "panic" =>
              /\ tasks[call.panicAt] >= 1
              /\ \E i \in 1..Len(rcvdLog) : rcvdLog[i] = call.panicAt
              /\ call.panicAt \in CatNames =>
                    /\ boot.pc = "serve"
                    /\ fs[call.panicAt].dir
                    /\ fs[call.panicAt].desc # 0
                    /\ fs[call.panicAt].repoDir
                    /\ \E r \in DOMAIN req :
                          req[r].name = call.panicAt /\ req[r].res = "ok"

\* with a positive period every task gets its ticker and the process goes on
C40_GoodPeriodRuns ==
    (call.fn = "main" /\ call.value # <<>> /\ ~BadPeriod(call.value)) =>
        call.pc \in {"env", "run"}

\* the process ended at the ticker of a service that create had admitted
C40_Witness ==
    /\ call.fn = "main"
    /\ call.pc = "panic"
    /\ call.value = <<[neg |-> FALSE, digits |-> "5", unit |-> ""]>>
    /\ call.panicAt \in CatNames
    /\ boot.n = 0

====
